---- MODULE Spec2Model ----
(***************************************************************************)
(* A model of the hand-written Python front end: the tokenizer             *)
(* (src/src/lexer/mod.rs) and the Pratt / recursive-descent parser         *)
(* (src/src/parser/mod.rs).                                                *)
(*                                                                         *)
(* The source text is a sequence of one-character strings.  The scan loop  *)
(* of Lexer::tokenize is a state machine with one action per branch of its *)
(* dispatch; the sub-lexers and the parse functions are operators that     *)
(* compute what the code computes, including the two ways a call can fail  *)
(* to return: a loop that stops making progress (hang) and an unwrap of a  *)
(* missing value (panic).                                                  *)
(***************************************************************************)
EXTENDS Integers, Sequences, FiniteSets, TLC

VARIABLES
    text,                   \* the source buffer handed to Lexer::new
    cs,                     \* CharStream position: [index, row, column]
    tokens,                 \* Lexer.tokens
    indent_stack,           \* Lexer.indent_stack
    implicit_line_joining,  \* Lexer.implicit_line_joining
    errors,                 \* tokenize's local `errors`
    is_beginning_of_line,   \* tokenize's local `is_beginning_of_line`
    pc,                     \* where the pipeline is
    lex_errors,             \* what tokenize returned (<<>> for None)
    index,                  \* parse's local `index`
    stmts,                  \* parsed_file.stmts
    parse_errors,           \* parse's local `parse_errors`
    created,                \* ghost: the diagnostics the parser has constructed so far
    relexed,                \* ghost: <<t>> once text is the slice spanned by the token t
    workspaces,             \* Session.workspaces: folder path -> (Url -> the controller's Arc)
    documents,              \* the Documents the live Arcs point to
    snapshots               \* the DocumentSnapshots handed out, each with what it showed then

vars == <<text, cs, tokens, indent_stack, implicit_line_joining, errors,
          is_beginning_of_line, pc, lex_errors, index, stmts, parse_errors, created,
          relexed, workspaces, documents, snapshots>>

sessionvars == <<workspaces, documents, snapshots>>

lexvars == <<text, cs, tokens, indent_stack, implicit_line_joining, errors,
             is_beginning_of_line, lex_errors, relexed, sessionvars>>

parsevars == <<index, stmts, parse_errors, created>>

(***************************************************************************)
(* Bounds of the model.                                                    *)
(***************************************************************************)
MaxLen == 3

MaxWords == 3

MaxLines == 2

(***************************************************************************)
(* Characters.                                                             *)
(***************************************************************************)
NoChar == ""

AsciiDigits == {"0", "1", "2", "3", "4", "5", "6", "7", "8", "9"}

AsciiLower == {"a", "b", "c", "d", "e", "f", "g", "h", "i", "j", "k", "l", "m",
               "n", "o", "p", "q", "r", "s", "t", "u", "v", "w", "x", "y", "z"}

AsciiUpper == {"A", "B", "C", "D", "E", "F", "G", "H", "I", "J", "K", "L", "M",
               "N", "O", "P", "Q", "R", "S", "T", "U", "V", "W", "X", "Y", "Z"}

is_ascii_digit(c) == c \in AsciiDigits

is_ascii_hexdigit(c) ==
    c \in AsciiDigits \cup {"a", "b", "c", "d", "e", "f", "A", "B", "C", "D", "E", "F"}

valid_id_initial_chars(c) == c \in AsciiLower \cup AsciiUpper \cup {"_"}

valid_id_noninitial_chars(c) == valid_id_initial_chars(c) \/ is_ascii_digit(c)

IsWhitespace(c) == c \in {" ", "\t", "\f"}

IsQuote(c) == c \in {"\"", "'"}

StrPrefixStart == {"r", "b", "f", "F", "R", "B", "u", "U"}

(***************************************************************************)
(* CharStream (the Cursor of the design).  Positions are                   *)
(* [index, row, column] with 0-based index and column.                     *)
(***************************************************************************)
StartPos == [index |-> 0, row |-> 1, column |-> 0]

is_eof(c) == c.index >= Len(text)

peek_char(i) == IF i < Len(text) THEN text[i + 1] ELSE NoChar

current_char(c) == peek_char(c.index)

next_char(c) == peek_char(c.index + 1)

RECURSIVE advance_by(_, _)
advance_by(c, n) ==
    IF n = 0 \/ is_eof(c) THEN c
    ELSE advance_by(
            IF current_char(c) = "\n"
            THEN [index |-> c.index + 1, row |-> c.row + 1, column |-> 0]
            ELSE [index |-> c.index + 1, row |-> c.row, column |-> c.column + 1],
            n - 1)

\* advance_while(1, |char| char != '\n')
RECURSIVE advance_to_newline(_)
advance_to_newline(c) ==
    IF is_eof(c) \/ current_char(c) = "\n" THEN c
    ELSE advance_to_newline(advance_by(c, 1))

RECURSIVE skip_whitespace(_)
skip_whitespace(c) ==
    IF IsWhitespace(current_char(c)) THEN skip_whitespace(advance_by(c, 1)) ELSE c

RECURSIVE advance_while_id(_)
advance_while_id(c) ==
    IF valid_id_noninitial_chars(current_char(c)) THEN advance_while_id(advance_by(c, 1))
    ELSE c

RECURSIVE advance_while_digit(_)
advance_while_digit(c) ==
    IF is_ascii_digit(current_char(c)) THEN advance_while_digit(advance_by(c, 1)) ELSE c

RECURSIVE advance_while_in(_, _)
advance_while_in(c, set) ==
    IF current_char(c) \in set THEN advance_while_in(advance_by(c, 1), set) ELSE c

\* Some(size) is the size, None is 0
is_at_eol(c) ==
    IF current_char(c) = "\r" /\ next_char(c) = "\n" THEN 2
    ELSE IF current_char(c) \in {"\n", "\r"} THEN 1
    ELSE 0

\* get_slice's Some; SliceOk is whether it is Some
SliceOk(from, to) == from <= to /\ to <= Len(text)

get_slice(from, to) == SubSeq(text, from + 1, to)

(***************************************************************************)
(* Spans, tokens, diagnostics.                                             *)
(***************************************************************************)
\* make_span with the shift applied to both columns: the span ends one column late
make_span_end_shifted(start, end) ==
    [row_start |-> start.row, row_end |-> end.row,
     column_start |-> start.column + 1, column_end |-> end.column + 1]

\* make_span without the shift to 1-based columns
make_span_zero_based(start, end) ==
    [row_start |-> start.row, row_end |-> end.row,
     column_start |-> start.column, column_end |-> end.column]

make_span(start, end) ==
    [row_start |-> start.row, row_end |-> end.row,
     column_start |-> start.column + 1, column_end |-> end.column]

\* Span { column_start: 1, column_end: 1, ..make_span(pos, pos) }
MarkerSpan(c) == [make_span(c, c) EXCEPT !.column_start = 1, !.column_end = 1]

DefaultSpan == [row_start |-> 0, row_end |-> 0, column_start |-> 0, column_end |-> 0]

Token(kind, val, lexeme, span) ==
    [kind |-> kind, val |-> val, lexeme |-> lexeme, span |-> span]

PythonError(kind, msg, span) == [error |-> kind, msg |-> msg, span |-> span]

(***************************************************************************)
(* The string sub-lexer.                                                   *)
(***************************************************************************)
is_triple_quote_str_in_pos(i) ==
    \/ peek_char(i) = "\"" /\ peek_char(i + 1) = "\"" /\ peek_char(i + 2) = "\""
    \/ peek_char(i) = "'" /\ peek_char(i + 1) = "'" /\ peek_char(i + 2) = "'"

is_str_prefix(str) ==
    str \in { <<"r">>, <<"u">>, <<"R">>, <<"U">>, <<"f">>, <<"F">>,
              <<"f", "r">>, <<"F", "r">>, <<"f", "R">>, <<"F", "R">>,
              <<"r", "f">>, <<"r", "F">>, <<"R", "f">>, <<"R", "F">>,
              <<"b">>, <<"B">>,
              <<"b", "r">>, <<"B", "r">>, <<"b", "R">>, <<"B", "R">>,
              <<"r", "b">>, <<"r", "B">>, <<"R", "b">>, <<"R", "B">> }

\* The body loop of a triple-quoted string: `while !is_triple_quote_str_in_pos(pos)`.
\* An iteration that changes neither the cursor nor `pos` repeats for ever: hang.
RECURSIVE TripleQuotedBody(_, _, _)
TripleQuotedBody(c, pos, quote_char) ==
    LET Advanced(c2, pos2) ==
            IF c2 = c /\ pos2 = pos THEN [cs |-> c2, hang |-> TRUE]
            ELSE TripleQuotedBody(c2, pos2, quote_char)
        Iterate(c2) ==
            Advanced(c2, IF current_char(c2) = quote_char THEN c2.index ELSE pos)
        Escaped(a) ==
            IF is_triple_quote_str_in_pos(a.index) THEN advance_by(a, 3) ELSE a
    IN  IF is_triple_quote_str_in_pos(pos) THEN [cs |-> c, hang |-> FALSE]
        ELSE Iterate(advance_by(
                IF current_char(c) = "\\" /\ next_char(c) = quote_char
                THEN Escaped(advance_by(c, 1)) ELSE c, 1))

\* The body loop of a single-quoted string:
\* `while current_char().map_or(false, |char| char != quote_char)`.
RECURSIVE SingleQuotedBody(_, _)
SingleQuotedBody(c, quote_char) ==
    LET Iterate(c2) ==
            IF c2 = c THEN [cs |-> c2, hang |-> TRUE] ELSE SingleQuotedBody(c2, quote_char)
        Escapes(cur, nxt, c1) ==
            IF /\ cur = "\\"
               /\ nxt \notin {"\n", "\r", "'", "\"", "\\"}
               /\ peek_char(c.index + 2) \in {"\n", "\r"}
            THEN [cs |-> c1, hang |-> FALSE]
            ELSE Iterate(IF current_char(c1) = quote_char /\ next_char(c1) = quote_char
                         THEN advance_by(c1, 2) ELSE c1)
        Match(cur, nxt) ==
            Escapes(cur, nxt,
                    advance_by(c, IF cur = "\\" /\ nxt \in {"\n", "\r"} THEN 1
                                  ELSE IF cur = "\\" /\ nxt \in {"'", "\"", "\\"} THEN 2
                                  ELSE IF cur = "'" /\ nxt = "'" THEN 2
                                  ELSE IF cur = "\"" /\ nxt = "\"" THEN 2
                                  ELSE 1))
    IN  IF current_char(c) = NoChar \/ current_char(c) = quote_char
        THEN [cs |-> c, hang |-> FALSE]
        ELSE Match(current_char(c), next_char(c))

\* `while current_char() == quote_char { advance_by(1); end_quote_total += 1 }`
RECURSIVE ConsumeEndQuotes(_, _, _)
ConsumeEndQuotes(c, quote_char, n) ==
    IF current_char(c) = quote_char THEN ConsumeEndQuotes(advance_by(c, 1), quote_char, n + 1)
    ELSE [cs |-> c, end_quote_total |-> n]

\* The result is [cs, str, span, errs, hang, panic]; `start` is the cursor at the
\* opening quote.  The unwrap of get_slice is the panic.
process_string(start) ==
    LET Sliced(end, start_quote_total, end_quote_total, ok, from, to) ==
            [cs |-> end,
             str |-> IF ok THEN get_slice(from, to) ELSE <<>>,
             span |-> make_span(start, end),
             errs |-> IF start_quote_total # end_quote_total
                      THEN << PythonError("Syntax", "SyntaxError: unterminated string literal",
                                          make_span(start, end)) >>
                      ELSE <<>>,
             hang |-> FALSE,
             panic |-> ~ok]
        Closed(closing, start_quote_total) ==
            Sliced(closing.cs, start_quote_total, closing.end_quote_total,
                   SliceOk(start.index + start_quote_total,
                           closing.cs.index - closing.end_quote_total),
                   start.index + start_quote_total,
                   closing.cs.index - closing.end_quote_total)
        Body(body, quote_char, start_quote_total) ==
            IF body.hang
            THEN [cs |-> body.cs, str |-> <<>>, span |-> make_span(start, body.cs),
                  errs |-> <<>>, hang |-> TRUE, panic |-> FALSE]
            ELSE Closed(ConsumeEndQuotes(body.cs, quote_char, 0), start_quote_total)
        Opened(quote_char, after) ==
            IF is_triple_quote_str_in_pos(start.index)
            THEN Body(TripleQuotedBody(after, after.index, quote_char), quote_char, 3)
            ELSE Body(SingleQuotedBody(after, quote_char), quote_char, 1)
    IN  Opened(current_char(start),
               advance_by(start, IF is_triple_quote_str_in_pos(start.index) THEN 3 ELSE 1))

\* "check for any string prefix": a word starting with a prefix letter is skipped whole
SkipStrPrefix(c) ==
    IF current_char(c) \in StrPrefixStart THEN advance_while_id(c) ELSE c

SkipComment(c) == IF current_char(c) = "#" THEN advance_to_newline(c) ELSE c

\* acc is [cs, str, span, errs, hang, panic]; one more literal is appended to it
AppendString(acc, p) ==
    [cs |-> p.cs,
     str |-> acc.str \o p.str,
     span |-> [acc.span EXCEPT !.column_end = p.span.column_end, !.row_end = p.span.row_end],
     errs |-> acc.errs \o p.errs,
     hang |-> p.hang,
     panic |-> p.panic]

\* lex_string, lines 426-452: `while matches!(current_char(), Some('\'' | '"'))`
RECURSIVE AdjacentStrings(_)
AdjacentStrings(acc) ==
    LET Appended(a) ==
            IF a.hang \/ a.panic THEN a
            ELSE AdjacentStrings(
                    [a EXCEPT !.cs = SkipStrPrefix(SkipComment(skip_whitespace(a.cs)))])
    IN  IF ~IsQuote(current_char(acc.cs)) THEN acc
        ELSE Appended(AppendString(acc, process_string(acc.cs)))

\* lex_string, lines 457-497: `while current_char() == '\\'`
RECURSIVE ContinuedStrings(_)
ContinuedStrings(acc) ==
    LET Appended(a) ==
            IF a.hang \/ a.panic THEN a
            ELSE ContinuedStrings([a EXCEPT !.cs = skip_whitespace(a.cs)])
        BeforeString(c3) ==
            Appended(IF IsQuote(current_char(c3))
                     THEN AppendString(acc, process_string(c3))
                     ELSE [acc EXCEPT !.cs = c3])
        AfterComment(c1) ==
            BeforeString(SkipStrPrefix(skip_whitespace(
                IF current_char(c1) = "\n" THEN advance_by(c1, 1) ELSE c1)))
    IN  IF current_char(acc.cs) # "\\" THEN acc
        ELSE AfterComment(SkipComment(skip_whitespace(advance_by(acc.cs, 1))))

\* Result of a sub-lexer: [cs, toks, errs, hang, panic]
SubLex(c, toks, errs, hang, panic) ==
    [cs |-> c, toks |-> toks, errs |-> errs, hang |-> hang, panic |-> panic]

\* lex_string_within_parens, lines 524-572: what follows process_string in one
\* iteration of the loop.  The get_slice of line 561 is between two cursor
\* positions and is always Some.
WithinParensTail(c) ==
    LET RECURSIVE SkipEols(_)
        SkipEols(x) == IF is_at_eol(x) > 0 THEN SkipEols(advance_by(x, 1)) ELSE x
        RECURSIVE SkipCommentLines(_)
        SkipCommentLines(x) ==
            IF current_char(x) = "#"
            THEN SkipCommentLines(skip_whitespace(advance_by(advance_to_newline(x), 1)))
            ELSE x
        Prefix(start, end) ==
            [cs |-> end,
             errs |-> IF ~is_str_prefix(get_slice(start.index, end.index))
                      THEN << PythonError("Syntax", "SyntaxError: Invalid str prefix",
                                          make_span(start, end)) >>
                      ELSE <<>>]
        BeforePrefix(c3) ==
            IF /\ current_char(c3) \in StrPrefixStart
               /\ next_char(c3) \in {"'", "\"", "r", "R", "f", "F", "b", "B"}
            THEN Prefix(c3, advance_while_id(c3))
            ELSE [cs |-> c3, errs |-> <<>>]
        AfterComment(c1) ==
            BeforePrefix(SkipCommentLines(skip_whitespace(SkipEols(
                IF current_char(c1) = "\\" THEN advance_by(c1, 1) ELSE c1))))
    IN  AfterComment(SkipComment(skip_whitespace(c)))

\* lex_string_within_parens, lines 516-573
RECURSIVE StringsWithinParens(_)
StringsWithinParens(acc) ==
    LET Skipped(a, t) == StringsWithinParens([a EXCEPT !.cs = t.cs, !.errs = a.errs \o t.errs])
        Appended(a) == IF a.hang \/ a.panic THEN a ELSE Skipped(a, WithinParensTail(a.cs))
    IN  IF ~IsQuote(current_char(acc.cs)) THEN acc
        ELSE Appended(AppendString(acc, process_string(acc.cs)))

lex_string_within_parens(start) ==
    LET Pushed(acc) ==
            SubLex(acc.cs, << Token("String", "", acc.str, make_span(start, acc.cs)) >>,
                   acc.errs, acc.hang, acc.panic)
    IN  Pushed(StringsWithinParens([cs |-> start, str |-> <<>>, span |-> DefaultSpan,
                                    errs |-> <<>>, hang |-> FALSE, panic |-> FALSE]))

lex_string(c, ilj) ==
    LET Pushed(acc) ==
            SubLex(acc.cs, << Token("String", "", acc.str, acc.span) >>,
                   acc.errs, acc.hang, acc.panic)
        Adjacent(acc) ==
            Pushed(IF acc.hang \/ acc.panic THEN acc
                   ELSE ContinuedStrings([acc EXCEPT !.cs = skip_whitespace(acc.cs)]))
        First(first) ==
            Adjacent(IF first.hang \/ first.panic THEN first
                     ELSE AdjacentStrings(
                            [first EXCEPT !.cs = SkipStrPrefix(skip_whitespace(first.cs))]))
    IN  IF ilj > 0 THEN lex_string_within_parens(c)
        ELSE First(process_string(c))

(***************************************************************************)
(* The number sub-lexer.                                                   *)
(***************************************************************************)
VALID_STATE == 2

INVALID_STATE == 0

\* handle_decimal_number: [some, start, cs]; cs is the position after the run
handle_decimal_number(c) ==
    LET Run(end) == [some |-> c # end, start |-> c, cs |-> end]
    IN  Run(advance_while_digit(IF current_char(c) \in {"+", "-"} THEN advance_by(c, 1) ELSE c))

\* the `for` loop of check_if_decimal_is_valid_in_pos over str, from its i-th character
RECURSIVE DecimalScan(_, _, _)
DecimalScan(str, i, curr_state) ==
    IF i > Len(str) THEN curr_state
    ELSE IF curr_state = INVALID_STATE /\ str[i] = "_" THEN curr_state
    ELSE DecimalScan(str, i + 1,
                     IF is_ascii_digit(str[i]) THEN VALID_STATE ELSE INVALID_STATE)

\* Ok(()) is TRUE
decimal_is_valid(str) == DecimalScan(str, 1, -1) # INVALID_STATE

\* the diagnostics of check_if_decimal_is_valid_in_pos (<<>> for Ok)
check_if_decimal_is_valid_in_pos(start, end) ==
    IF decimal_is_valid(get_slice(start.index, end.index)) THEN <<>>
    ELSE << PythonError("Syntax", "SyntaxError: invalid decimal literal", make_span(start, end)) >>

\* the `for` loop of check_if_float_number_is_valid_in_pos over str, from its i-th character
RECURSIVE FloatScan(_, _, _)
FloatScan(str, i, state) ==
    LET Dot(char, s2) == FloatScan(str, i + 1, IF char = "." THEN s2 + 2 ELSE s2)
        Digit(char, isJ, digit, s1) ==
            IF s1 \in {2, 4, 6} /\ digit THEN FloatScan(str, i + 1, s1)
            ELSE Dot(char, IF (s1 = 5 /\ digit) \/ (s1 = 6 /\ isJ) \/ digit THEN s1 + 1 ELSE s1)
        Char(char, isE, isJ, digit) ==
            IF \/ (state = 4 \/ state = 1) /\ char = "."
               \/ state = 7 /\ isJ
               \/ state >= 5 /\ isE
            THEN 0
            ELSE IF state = 4 /\ isE THEN FloatScan(str, i + 1, state + 1)
            ELSE Digit(char, isJ, digit,
                       IF (state = 2 \/ state = 4) /\ (isE \/ isJ) THEN state + 3 ELSE state)
    IN  IF i > Len(str) THEN state
        ELSE Char(str[i], str[i] \in {"e", "E"}, str[i] \in {"j", "J"}, is_ascii_digit(str[i]))

float_is_valid(str) == FloatScan(str, 1, 1) \in {4, 6, 7}

check_if_float_number_is_valid_in_pos(start, end, msg) ==
    IF float_is_valid(get_slice(start.index, end.index)) THEN <<>>
    ELSE << PythonError("Syntax", msg, make_span(start, end)) >>

\* the `while` loop of handle_float_or_imaginary_number; st is [cs, allow_sign, errs]
RECURSIVE FloatChars(_)
FloatChars(st) ==
    LET Decimal(d) ==
            FloatChars([cs |-> d.cs, allow_sign |-> st.allow_sign,
                        errs |-> st.errs \o check_if_decimal_is_valid_in_pos(d.start, d.cs)])
        Char(cur) ==
            IF ~(\/ is_ascii_digit(cur)
                 \/ cur \in {".", "e", "E", "_"}
                 \/ st.allow_sign /\ cur \in {"-", "+"})
            THEN st
            ELSE IF is_ascii_digit(cur) \/ cur \in {"-", "+"}
            THEN Decimal(handle_decimal_number(st.cs))
            ELSE FloatChars([cs |-> advance_by(st.cs, 1),
                             allow_sign |-> st.allow_sign \/ cur \in {"e", "E"},
                             errs |-> st.errs])
    IN  Char(current_char(st.cs))

\* [cs, number_type, errs]
handle_float_or_imaginary_number(c, float_start) ==
    LET Suffix(st, many, c2) ==
            [cs |-> c2, number_type |-> "Imaginary",
             errs |-> st.errs \o
                      (IF many
                       THEN check_if_float_number_is_valid_in_pos(float_start, c2,
                                "SyntaxError: invalid imaginary literal")
                       ELSE <<>>)]
        Imaginary(st, c1) ==
            Suffix(st, current_char(c1) \in {"j", "J"},
                   IF current_char(c1) \in {"j", "J"}
                   THEN advance_while_in(c1, {"j", "J"}) ELSE c1)
        Scanned(st) ==
            IF current_char(st.cs) \in {"j", "J"}
            THEN Imaginary(st, advance_by(st.cs, 1))
            ELSE [cs |-> st.cs, number_type |-> "Float",
                  errs |-> st.errs \o check_if_float_number_is_valid_in_pos(float_start, st.cs,
                                          "SyntaxError: invalid float literal")]
    IN  Scanned(FloatChars([cs |-> c, allow_sign |-> FALSE, errs |-> <<>>]))

lex_number(start) ==
    LET Pushed(end, number_type, errs) ==
            SubLex(end,
                   << Token("Number", number_type, get_slice(start.index, end.index),
                            make_span(start, end)) >>,
                   errs, FALSE, FALSE)
        Float(errs, f) == Pushed(f.cs, f.number_type, errs \o f.errs)
        Integer(c2, number_type, errs) ==
            IF current_char(c2) \in {".", "e", "E"}
            THEN Float(errs, handle_float_or_imaginary_number(c2, start))
            ELSE Pushed(c2, number_type, errs)
        Decimal(some, c2, number_type) ==
            Integer(c2, IF some THEN "Decimal" ELSE number_type,
                    IF some THEN check_if_decimal_is_valid_in_pos(start, c2) ELSE <<>>)
        Radix(r, d) ==
            Decimal(d.some, IF d.some THEN advance_while_id(d.cs) ELSE r.cs, r.ty)
        Prefix(r) == Radix(r, handle_decimal_number(r.cs))
        Second(radix, nxt) ==
            Prefix(IF radix /\ nxt \in {"b", "B"}
                   THEN [cs |-> advance_while_in(advance_by(start, 2), {"0", "1", "_"}),
                         ty |-> "Binary"]
                   ELSE IF radix /\ nxt \in {"x", "X"}
                   THEN [cs |-> advance_while_in(advance_by(start, 2),
                                    {x \in AsciiDigits \cup AsciiLower \cup AsciiUpper :
                                        is_ascii_hexdigit(x)} \cup {"_"}),
                         ty |-> "Hex"]
                   ELSE IF radix /\ nxt \in {"o", "O"}
                   THEN [cs |-> advance_while_in(advance_by(start, 2),
                                    {"0", "1", "2", "3", "4", "5", "6", "7", "_"}),
                         ty |-> "Octal"]
                   ELSE [cs |-> start, ty |-> "Invalid"])
    IN  Second(current_char(start) = "0" /\ next_char(start) # NoChar, next_char(start))

(***************************************************************************)
(* Identifiers, keywords, operators, single characters.                    *)
(***************************************************************************)
KeywordType(str) ==
    CASE str = <<"a", "n", "d">> -> "And"
      [] str = <<"a", "s">> -> "As"
      [] str = <<"a", "s", "s", "e", "r", "t">> -> "Assert"
      [] str = <<"a", "s", "y", "n", "c">> -> "Async"
      [] str = <<"a", "w", "a", "i", "t">> -> "Await"
      [] str = <<"b", "r", "e", "a", "k">> -> "Break"
      [] str = <<"c", "l", "a", "s", "s">> -> "Class"
      [] str = <<"c", "o", "n", "t", "i", "n", "u", "e">> -> "Continue"
      [] str = <<"d", "e", "f">> -> "Def"
      [] str = <<"d", "e", "l">> -> "Del"
      [] str = <<"e", "l", "i", "f">> -> "Elif"
      [] str = <<"e", "l", "s", "e">> -> "Else"
      [] str = <<"e", "x", "c", "e", "p", "t">> -> "Except"
      [] str = <<"F", "a", "l", "s", "e">> -> "False"
      [] str = <<"f", "i", "n", "a", "l", "l", "y">> -> "Finally"
      [] str = <<"f", "o", "r">> -> "For"
      [] str = <<"f", "r", "o", "m">> -> "From"
      [] str = <<"g", "l", "o", "b", "a", "l">> -> "Global"
      [] str = <<"i", "f">> -> "If"
      [] str = <<"i", "m", "p", "o", "r", "t">> -> "Import"
      [] str = <<"i", "n">> -> "In"
      [] str = <<"i", "s">> -> "Is"
      [] str = <<"l", "a", "m", "b", "d", "a">> -> "Lambda"
      [] str = <<"N", "o", "n", "e">> -> "None"
      [] str = <<"n", "o", "n", "l", "o", "c", "a", "l">> -> "NonLocal"
      [] str = <<"n", "o", "t">> -> "Not"
      [] str = <<"o", "r">> -> "Or"
      [] str = <<"p", "a", "s", "s">> -> "Pass"
      [] str = <<"r", "a", "i", "s", "e">> -> "Raise"
      [] str = <<"r", "e", "t", "u", "r", "n">> -> "Return"
      [] str = <<"T", "r", "u", "e">> -> "True"
      [] str = <<"t", "r", "y">> -> "Try"
      [] str = <<"w", "h", "i", "l", "e">> -> "While"
      [] str = <<"w", "i", "t", "h">> -> "With"
      [] str = <<"y", "i", "e", "l", "d">> -> "Yield"
      [] OTHER -> ""

SoftKeywordType(str) ==
    CASE str = <<"c", "a", "s", "e">> -> "Case"
      [] str = <<"m", "a", "t", "c", "h">> -> "Match"
      [] str = <<"_">> -> "Underscore"
      [] OTHER -> ""
lex_identifier_or_keyword(start, ilj) ==
    LET \* `self.lex_string(); return;`: the returned diagnostics are not kept
        Prefixed(s) == SubLex(s.cs, s.toks, <<>>, s.hang, s.panic)
        Pushed(end, str, span, keyword, soft) ==
            SubLex(end,
                   << IF keyword # "" THEN Token("Keyword", keyword, str, span)
                      ELSE IF soft # "" THEN Token("SoftKeyword", soft, str, span)
                      ELSE Token("Id", "", str, span) >>,
                   <<>>, FALSE, FALSE)
        Word(end, str) ==
            IF is_str_prefix(str) /\ IsQuote(current_char(end))
            THEN Prefixed(lex_string(end, ilj))
            ELSE Pushed(end, str, make_span(start, end), KeywordType(str), SoftKeywordType(str))
        Run(end) == Word(end, get_slice(start.index, end.index))
    IN  Run(advance_while_id(start))

OperatorChars == {"*", "+", "=", "-", "<", ">", "&", "|", "%", "~", "^", "!", "@", "/"}

\* the (token_type, advance_offset) match of lex_operator; val "" is Invalid(char)
operator_match(cur, nxt, third) ==
        IF cur = "=" /\ nxt = "=" THEN [val |-> "Equals", n |-> 2]
        ELSE IF cur = "+" /\ nxt = "=" THEN [val |-> "PlusEqual", n |-> 2]
        ELSE IF cur = "*" /\ nxt = "=" THEN [val |-> "AsteriskEqual", n |-> 2]
        ELSE IF cur = "-" /\ nxt = "=" THEN [val |-> "MinusEqual", n |-> 2]
        ELSE IF cur = "<" /\ nxt = "=" THEN [val |-> "LessThanOrEqual", n |-> 2]
        ELSE IF cur = ">" /\ nxt = "=" THEN [val |-> "GreaterThanOrEqual", n |-> 2]
        ELSE IF cur = "^" /\ nxt = "=" THEN [val |-> "BitwiseXOrEqual", n |-> 2]
        ELSE IF cur = "~" /\ nxt = "=" THEN [val |-> "BitwiseNotEqual", n |-> 2]
        ELSE IF cur = "!" /\ nxt = "=" THEN [val |-> "NotEquals", n |-> 2]
        ELSE IF cur = "%" /\ nxt = "=" THEN [val |-> "ModuloEqual", n |-> 2]
        ELSE IF cur = "&" /\ nxt = "=" THEN [val |-> "BitwiseAndEqual", n |-> 2]
        ELSE IF cur = "|" /\ nxt = "=" THEN [val |-> "BitwiseOrEqual", n |-> 2]
        ELSE IF cur = "@" /\ nxt = "=" THEN [val |-> "AtEqual", n |-> 2]
        ELSE IF cur = "/" /\ nxt = "=" THEN [val |-> "DivideEqual", n |-> 2]
        ELSE IF cur = "/" /\ nxt = "/" THEN (IF third = "=" THEN [val |-> "FloorDivisionEqual", n |-> 3] ELSE [val |-> "FloorDivision", n |-> 2])
        ELSE IF cur = "<" /\ nxt = "<" THEN (IF third = "=" THEN [val |-> "BitwiseLeftShiftEqual", n |-> 3] ELSE [val |-> "BitwiseLeftShift", n |-> 2])
        ELSE IF cur = ">" /\ nxt = ">" THEN (IF third = "=" THEN [val |-> "BitwiseRightShiftEqual", n |-> 3] ELSE [val |-> "BitwiseRightShift", n |-> 2])
        ELSE IF cur = "*" /\ nxt = "*" THEN (IF third = "=" THEN [val |-> "ExponentEqual", n |-> 3] ELSE [val |-> "Exponent", n |-> 2])
        ELSE IF cur = "%" THEN [val |-> "Modulo", n |-> 1]
        ELSE IF cur = "&" THEN [val |-> "BitwiseAnd", n |-> 1]
        ELSE IF cur = "*" THEN [val |-> "Asterisk", n |-> 1]
        ELSE IF cur = "+" THEN [val |-> "Plus", n |-> 1]
        ELSE IF cur = "-" THEN [val |-> "Minus", n |-> 1]
        ELSE IF cur = "<" THEN [val |-> "LessThan", n |-> 1]
        ELSE IF cur = "=" THEN [val |-> "Assign", n |-> 1]
        ELSE IF cur = ">" THEN [val |-> "GreaterThan", n |-> 1]
        ELSE IF cur = "^" THEN [val |-> "BitwiseXOR", n |-> 1]
        ELSE IF cur = "|" THEN [val |-> "BitwiseOr", n |-> 1]
        ELSE IF cur = "~" THEN [val |-> "BitwiseNot", n |-> 1]
        ELSE IF cur = "@" THEN [val |-> "At", n |-> 1]
        ELSE IF cur = "/" THEN [val |-> "Divide", n |-> 1]
        ELSE [val |-> "", n |-> 1]

lex_operator(start) ==
    LET Pushed(val, end) ==
            SubLex(end,
                   << IF val = ""
                      THEN Token("Invalid", current_char(start), <<>>, make_span(start, end))
                      ELSE Token("Operator", val, <<>>, make_span(start, end)) >>,
                   <<>>, FALSE, FALSE)
        Matched(m) == Pushed(m.val, advance_by(start, m.n))
    IN  Matched(operator_match(current_char(start), next_char(start),
                               peek_char(start.index + 2)))

\* a token of n characters starting at c
lex_chars(c, n, kind, val) ==
    LET Pushed(end) ==
            SubLex(end, << Token(kind, val, <<>>, make_span(c, end)) >>, <<>>, FALSE, FALSE)
    IN  Pushed(advance_by(c, n))

lex_single_char(c, kind) == lex_chars(c, 1, kind, "")

(***************************************************************************)
(* Lexer::handle_indentation and the start of a logical line.              *)
(***************************************************************************)
Last(seq) == seq[Len(seq)]

\* the `while ... whitespace_total < top_of_stack` loop: [stack, toks]
RECURSIVE PopIndents(_, _, _, _)
PopIndents(stack, toks, whitespace_total, c) ==
    IF Len(stack) > 0 /\ whitespace_total < Last(stack)
    THEN PopIndents(SubSeq(stack, 1, Len(stack) - 1),
                    Append(toks, Token("Dedent", "", <<>>, MarkerSpan(c))),
                    whitespace_total, c)
    ELSE [stack |-> stack, toks |-> toks]

\* handle_indentation with `>=` for the Greater arm: a line at the width of the top of
\* the stack pushes that width again
handle_indentation_pushing_equal(stack, whitespace_total, c) ==
    LET Popped(popped) ==
            [stack |-> popped.stack, toks |-> popped.toks,
             errs |-> IF Len(popped.stack) > 0 /\ whitespace_total # Last(popped.stack)
                      THEN << PythonError("Indentation",
                                  "IndentError: indent amount does not match previous indent",
                                  MarkerSpan(c)) >>
                      ELSE <<>>]
    IN  IF whitespace_total < Last(stack)
        THEN Popped(PopIndents(stack, <<>>, whitespace_total, c))
        ELSE [stack |-> Append(stack, whitespace_total),
              toks |-> << Token("Indent", "", <<>>, MarkerSpan(c)) >>,
              errs |-> <<>>]

\* handle_indentation without the comparison that follows the pop loop
handle_indentation_unchecked(stack, whitespace_total, c) ==
    LET Popped(popped) == [stack |-> popped.stack, toks |-> popped.toks, errs |-> <<>>]
    IN  IF whitespace_total < Last(stack)
        THEN Popped(PopIndents(stack, <<>>, whitespace_total, c))
        ELSE IF whitespace_total > Last(stack)
        THEN [stack |-> Append(stack, whitespace_total),
              toks |-> << Token("Indent", "", <<>>, MarkerSpan(c)) >>,
              errs |-> <<>>]
        ELSE [stack |-> stack, toks |-> <<>>, errs |-> <<>>]

\* [stack, toks, errs]: the stack and the tokens pushed, and the Err (<<>> for Ok)
handle_indentation(stack, whitespace_total, c) ==
    LET Popped(popped) ==
            [stack |-> popped.stack, toks |-> popped.toks,
             errs |-> IF Len(popped.stack) > 0 /\ whitespace_total # Last(popped.stack)
                      THEN << PythonError("Indentation",
                                  "IndentError: indent amount does not match previous indent",
                                  MarkerSpan(c)) >>
                      ELSE <<>>]
    IN  IF whitespace_total < Last(stack)
        THEN Popped(PopIndents(stack, <<>>, whitespace_total, c))
        ELSE IF whitespace_total > Last(stack)
        THEN [stack |-> Append(stack, whitespace_total),
              toks |-> << Token("Indent", "", <<>>, MarkerSpan(c)) >>,
              errs |-> <<>>]
        ELSE [stack |-> stack, toks |-> <<>>, errs |-> <<>>]

\* tokenize, lines 44-76: what the `if is_beginning_of_line` block does before the
\* dispatch.  outcome is "break", "continue" or "dispatch".
LineStart ==
    LET none == [stack |-> indent_stack, toks |-> <<>>, errs |-> <<>>]
        Comment(whitespace_total, c2) ==
            IF is_eof(c2) THEN [outcome |-> "break", cs |-> c2, ind |-> none]
            ELSE IF is_at_eol(c2) > 0 /\ implicit_line_joining = 0
            THEN [outcome |-> "continue", cs |-> advance_by(c2, is_at_eol(c2)), ind |-> none]
            ELSE IF implicit_line_joining = 0
            THEN [outcome |-> "dispatch", cs |-> c2,
                  ind |-> handle_indentation(indent_stack, whitespace_total, c2)]
            ELSE [outcome |-> "dispatch", cs |-> c2, ind |-> none]
        Whitespace(c1) ==
            IF is_eof(c1) THEN [outcome |-> "break", cs |-> c1, ind |-> none]
            ELSE Comment(c1.index - cs.index, SkipComment(c1))
    IN  IF ~is_beginning_of_line
        THEN [outcome |-> "dispatch", cs |-> cs, ind |-> none]
        ELSE Whitespace(skip_whitespace(cs))

\* the loop runs its body, and the body reaches the dispatch `match`
Dispatching(ls) == pc = "tokenize" /\ ~is_eof(cs) /\ ls.outcome = "dispatch"

\* One pass of the loop body that ends in arm result r (a SubLex) after the line
\* start ls, with the new values of the nesting counter and of is_beginning_of_line.
Arm(ls, r, ilj, bol) ==
    /\ cs' = r.cs
    /\ tokens' = IF r.hang \/ r.panic THEN tokens \o ls.ind.toks
                 ELSE tokens \o ls.ind.toks \o r.toks
    /\ errors' = errors \o ls.ind.errs \o r.errs
    /\ indent_stack' = ls.ind.stack
    /\ implicit_line_joining' = ilj
    /\ is_beginning_of_line' = bol
    /\ pc' = IF r.hang THEN "hang" ELSE IF r.panic THEN "panic" ELSE "tokenize"
    /\ UNCHANGED <<text, lex_errors, parsevars, relexed, sessionvars>>

NoToken(c, errs) == SubLex(c, <<>>, errs, FALSE, FALSE)

(***************************************************************************)
(* Lexer::tokenize: one action per arm of the scan loop.                   *)
(***************************************************************************)
BlankLine ==
    \E ls \in {LineStart} :
        /\ pc = "tokenize" /\ ~is_eof(cs) /\ ls.outcome = "continue"
        /\ cs' = ls.cs
        /\ is_beginning_of_line' = TRUE
        /\ UNCHANGED <<text, tokens, indent_stack, implicit_line_joining, errors, pc,
                       lex_errors, parsevars, relexed, sessionvars>>

LexIdentifierOrKeyword ==
    \E ls \in {LineStart} :
        /\ Dispatching(ls) /\ valid_id_initial_chars(current_char(ls.cs))
        /\ Arm(ls, lex_identifier_or_keyword(ls.cs, implicit_line_joining),
               implicit_line_joining, FALSE)

LexNumber ==
    \E ls \in {LineStart} :
        /\ Dispatching(ls) /\ is_ascii_digit(current_char(ls.cs))
        /\ Arm(ls, lex_number(ls.cs), implicit_line_joining, FALSE)

LexString ==
    \E ls \in {LineStart} :
        /\ Dispatching(ls) /\ IsQuote(current_char(ls.cs))
        /\ Arm(ls, lex_string(ls.cs, implicit_line_joining), implicit_line_joining, FALSE)

OpenKind(c) ==
    CASE c = "(" -> "OpenParenthesis" [] c = "[" -> "OpenBrackets" [] c = "{" -> "OpenBrace"

CloseKind(c) ==
    CASE c = ")" -> "CloseParenthesis" [] c = "]" -> "CloseBrackets" [] c = "}" -> "CloseBrace"

LexOpen ==
    \E ls \in {LineStart} :
        /\ Dispatching(ls) /\ current_char(ls.cs) \in {"(", "[", "{"}
        /\ Arm(ls, lex_single_char(ls.cs, OpenKind(current_char(ls.cs))),
               implicit_line_joining + 1, FALSE)

LexClose ==
    \E ls \in {LineStart} :
        /\ Dispatching(ls) /\ current_char(ls.cs) \in {")", "]", "}"}
        /\ Arm(ls, lex_single_char(ls.cs, CloseKind(current_char(ls.cs))),
               implicit_line_joining - 1, FALSE)

\* the '.' arm: the diagnostics of lex_number are not kept (`self.lex_number(); continue;`)
dot_arm(c) ==
    LET Number(n) == SubLex(n.cs, n.toks, <<>>, n.hang, n.panic)
    IN  IF is_ascii_digit(next_char(c)) THEN Number(lex_number(c))
        ELSE IF next_char(c) = "." /\ peek_char(c.index + 2) = "."
        THEN lex_chars(c, 3, "Ellipsis", "")
        ELSE lex_single_char(c, "Dot")

LexDot ==
    \E ls \in {LineStart} :
        /\ Dispatching(ls) /\ current_char(ls.cs) = "."
        /\ Arm(ls, dot_arm(ls.cs), implicit_line_joining, FALSE)

LexPunctuation ==
    \E ls \in {LineStart} :
        /\ Dispatching(ls) /\ current_char(ls.cs) \in {";", ","}
        /\ Arm(ls, lex_single_char(ls.cs, IF current_char(ls.cs) = ";" THEN "SemiColon"
                                          ELSE "Comma"),
               implicit_line_joining, FALSE)

LexColon ==
    \E ls \in {LineStart} :
        /\ Dispatching(ls) /\ current_char(ls.cs) = ":"
        /\ Arm(ls, IF next_char(ls.cs) = "=" THEN lex_chars(ls.cs, 2, "Operator", "ColonEqual")
                   ELSE lex_single_char(ls.cs, "Colon"),
               implicit_line_joining, FALSE)

LexOperator ==
    \E ls \in {LineStart} :
        /\ Dispatching(ls) /\ current_char(ls.cs) \in OperatorChars
        /\ Arm(ls, IF current_char(ls.cs) = "-" /\ next_char(ls.cs) = ">"
                   THEN lex_chars(ls.cs, 2, "RightArrow", "")
                   ELSE lex_operator(ls.cs),
               implicit_line_joining, FALSE)

SkipWhitespace ==
    \E ls \in {LineStart} :
        /\ Dispatching(ls) /\ IsWhitespace(current_char(ls.cs))
        /\ Arm(ls, NoToken(skip_whitespace(ls.cs), <<>>), implicit_line_joining, FALSE)

\* the line terminator arm without the test of the nesting counter
newline_arm_unnested(start, ilj) ==
    SubLex(advance_by(start, is_at_eol(start)),
           << Token("NewLine", "", <<>>,
                    make_span(start, [start EXCEPT !.column = start.column + 1])) >>,
           <<>>, FALSE, FALSE)

\* tokenize, lines 172-193: the '\n' | '\r' arm
newline_arm(start, ilj) ==
    IF ilj > 0 THEN NoToken(advance_by(start, is_at_eol(start)), <<>>)
    ELSE SubLex(advance_by(start, is_at_eol(start)),
                << Token("NewLine", "", <<>>,
                         make_span(start, [start EXCEPT !.column = start.column + 1])) >>,
                <<>>, FALSE, FALSE)

LexNewLine ==
    \E ls \in {LineStart} :
        /\ Dispatching(ls) /\ current_char(ls.cs) \in {"\n", "\r"}
        /\ Arm(ls, newline_arm(ls.cs, implicit_line_joining), implicit_line_joining, TRUE)

backslash_arm(start) ==
    LET Skipped(end) ==
            IF current_char(end) = "\n" THEN NoToken(advance_by(end, 1), <<>>)
            ELSE NoToken(end,
                    << PythonError("Syntax",
                           "SyntaxError: unexpected characters after line continuation character",
                           make_span(start, end)) >>)
    IN  Skipped(advance_by(start, 1))

LexBackslash ==
    \E ls \in {LineStart} :
        /\ Dispatching(ls) /\ current_char(ls.cs) = "\\"
        /\ Arm(ls, backslash_arm(ls.cs), implicit_line_joining, FALSE)

LexComment ==
    \E ls \in {LineStart} :
        /\ Dispatching(ls) /\ current_char(ls.cs) = "#"
        /\ Arm(ls, NoToken(advance_to_newline(ls.cs), <<>>), implicit_line_joining, FALSE)

HasArm(c) ==
    \/ valid_id_initial_chars(c) \/ is_ascii_digit(c) \/ IsQuote(c) \/ IsWhitespace(c)
    \/ c \in {"(", ")", "[", "]", "{", "}", ".", ";", ",", ":", "\n", "\r", "\\", "#"}
    \/ c \in OperatorChars

LexInvalidCharacter ==
    \E ls \in {LineStart} :
        /\ Dispatching(ls) /\ ~HasArm(current_char(ls.cs))
        /\ Arm(ls, NoToken(advance_by(ls.cs, 1),
                       << PythonError("Syntax",
                              "SyntaxError: invalid syntax, character only allowed inside string literals",
                              make_span(ls.cs, advance_by(ls.cs, 1))) >>),
               implicit_line_joining, FALSE)

\* the unwinding with `if` for `while`: at most one level is closed
UnwindIndentsOnce(stack, toks, c) ==
    IF Last(stack) > 0
    THEN [stack |-> SubSeq(stack, 1, Len(stack) - 1),
          toks |-> Append(toks, Token("Dedent", "", <<>>, MarkerSpan(c)))]
    ELSE [stack |-> stack, toks |-> toks]

\* tokenize, lines 227-237: one Dedent per entry above 0
RECURSIVE UnwindIndents(_, _, _)
UnwindIndents(stack, toks, c) ==
    IF Last(stack) > 0
    THEN UnwindIndents(SubSeq(stack, 1, Len(stack) - 1),
                       Append(toks, Token("Dedent", "", <<>>, MarkerSpan(c))), c)
    ELSE [stack |-> stack, toks |-> toks]

EofToken(c) ==
    Token("Eof", "", <<>>,
          [make_span(c, c) EXCEPT !.column_end = make_span(c, c).column_end + 1])

\* the end of tokenize with the Eof token pushed before the unwinding
TokenizeEndEofFirst ==
    \E ls \in {LineStart} :
        /\ pc = "tokenize"
        /\ is_eof(cs) \/ ls.outcome = "break"
        /\ \E c \in {IF is_eof(cs) THEN cs ELSE ls.cs} :
            \E u \in {UnwindIndents(indent_stack, <<>>, c)} :
                /\ cs' = c
                /\ tokens' = (tokens \o << EofToken(c) >>) \o u.toks
                /\ indent_stack' = u.stack
        /\ is_beginning_of_line' = (is_beginning_of_line /\ is_eof(cs))
        /\ lex_errors' = errors
        /\ pc' = "tokenized"
        /\ UNCHANGED <<text, implicit_line_joining, errors, parsevars, relexed, sessionvars>>

\* The loop is left (its condition fails, or a `break` at the start of a line);
\* the rest of tokenize runs and it returns its diagnostics.
TokenizeEnd ==
    \E ls \in {LineStart} :
        /\ pc = "tokenize"
        /\ is_eof(cs) \/ ls.outcome = "break"
        /\ \E c \in {IF is_eof(cs) THEN cs ELSE ls.cs} :
            \E u \in {UnwindIndents(indent_stack, <<>>, c)} :
                /\ cs' = c
                /\ tokens' = (tokens \o u.toks) \o << EofToken(c) >>
                /\ indent_stack' = u.stack
        /\ is_beginning_of_line' = (is_beginning_of_line /\ is_eof(cs))
        /\ lex_errors' = errors
        /\ pc' = "tokenized"
        /\ UNCHANGED <<text, implicit_line_joining, errors, parsevars, relexed, sessionvars>>

(***************************************************************************)
(* Parser helpers: token predicates, allowed-expression flags, binding     *)
(* powers, tree nodes.  The parser is modelled for the token vocabulary of *)
(* ParseSources; a CASE without OTHER marks the arms of a match that this  *)
(* vocabulary cannot reach.                                                *)
(***************************************************************************)
\* self.tokens.get(i): the token, or NoToken for None
Get(i) == IF i < Len(tokens) THEN tokens[i + 1] ELSE Token("None", "", <<>>, DefaultSpan)

IsSome(i) == i < Len(tokens)

Is(t, kind) == t.kind = kind

IsOp(t, val) == t.kind = "Operator" /\ t.val = val

IsKw(t, val) == t.kind = "Keyword" /\ t.val = val

is_assign(t) == IsOp(t, "Assign")

is_augassign(t) ==
    /\ t.kind = "Operator"
    /\ t.val \in {"PlusEqual", "MinusEqual", "AsteriskEqual", "DivideEqual", "FloorDivisionEqual",
                  "ModuloEqual", "AtEqual", "ExponentEqual", "BitwiseAndEqual", "BitwiseOrEqual",
                  "BitwiseXOrEqual", "BitwiseLeftShiftEqual", "BitwiseRightShiftEqual"}

\* a token kind that has a prefix handler in pratt_parsing
is_token_start_of_expr(t) ==
    \/ t.kind \in {"Id", "String", "Number", "Ellipsis", "OpenParenthesis", "OpenBrackets",
                   "OpenBrace"}
    \/ t.kind = "Operator" /\ t.val \in {"Plus", "Minus", "BitwiseNot", "Asterisk", "Exponent"}
    \/ t.kind = "Keyword" /\ t.val \in {"True", "False", "None", "Yield", "Not", "Await", "Lambda"}

\* a token that closes the expression being parsed
is_token_end_of_expr(t) ==
    \/ t.kind \in {"NewLine", "SemiColon", "Colon", "Eof", "CloseParenthesis", "CloseBrackets",
                   "CloseBrace", "Comma", "Dedent"}
    \/ t.kind = "Keyword" /\ t.val \in {"Else", "As", "For", "From"}

\* ParseExprBitflags::all()
ParseExprBitflags_all ==
    [expressions |-> {"ID", "STRING", "NUMBER", "BOOL", "ELLIPSIS", "NONE", "YIELD",
                      "PARENTHESIZED", "LIST", "SET", "TUPLE", "TUPLE_NO_PARENS", "ASSIGN"},
     binary_op |-> {"IF_ELSE", "ARITHMETIC"},
     unary_op |-> {"ALL"}]

remove_expression(flags, removed) == [flags EXCEPT !.expressions = @ \ removed]

\* (left, right) binding power of a binary operator
infix_binding_power(op) ==
    CASE op = "Walrus" -> <<2, 1>>
      [] op = "IfElse" -> <<4, 3>>
      [] op = "LogicalOr" -> <<5, 6>>
      [] op = "LogicalAnd" -> <<7, 8>>
      [] op \in {"In", "NotIn", "Is", "IsNot", "LessThan", "LessThanOrEqual", "GreaterThan",
                 "GreaterThanOrEqual", "Equals", "NotEqual"} -> <<11, 12>>
      [] op = "BitwiseOr" -> <<13, 14>>
      [] op = "BitwiseXOR" -> <<15, 16>>
      [] op = "BitwiseAnd" -> <<17, 18>>
      [] op \in {"BitwiseLeftShift", "BitwiseRightShift"} -> <<19, 20>>
      [] op \in {"Add", "Subtract"} -> <<21, 22>>
      [] op \in {"Multiply", "Divide", "FloorDivision", "Modulo", "At"} -> <<23, 24>>
      [] op = "Exponent" -> <<28, 27>>
      [] op = "AttributeRef" -> <<33, 34>>

\* Some(left) for the postfix operators; <<>> is None
postfix_binding_power(op) ==
    IF op \in {"OpenParenthesis", "OpenBrackets"} THEN <<31>> ELSE <<>>

\* right binding power of a prefix operator
prefix_binding_power(op) ==
    CASE op = "Lambda" -> 1
      [] op = "LogicalNot" -> 9
      [] op \in {"UnpackIterable", "UnpackDictionary"} -> 10
      [] op \in {"Plus", "Minus", "BitwiseNot"} -> 25
      [] op = "Await" -> 29

\* A tree node.  sort is "Expression", "Statement" or "Part" (blocks, parameters,
\* dictionary items: they carry a span but are neither).
Node(sort, kind, val, span, kids) ==
    [sort |-> sort, kind |-> kind, val |-> val, span |-> span, kids |-> kids]

Expr(kind, val, span, kids) == Node("Expression", kind, val, span, kids)

\* Expression::set_span
set_span(expr, span) == [expr EXCEPT !.span = span]

\* a diagnostic built by the parser
SyntaxErr(msg, span) == PythonError("Syntax", msg, span)

(***************************************************************************)
(* The state a parse function threads: the caller's `index`, the local     *)
(* `errors` vector, every diagnostic constructed so far (made), and        *)
(* whether an unwrap met None (panic).                                     *)
(***************************************************************************)
Start(i) == [index |-> i, errs |-> <<>>, made |-> <<>>, panic |-> FALSE]

\* self.tokens.get(index).unwrap()
Unwrap(a) == [a EXCEPT !.panic = @ \/ ~IsSome(a.index)]

Adv(a, n) == [a EXCEPT !.index = @ + n]

\* errors.push(err) when cond
Push(a, cond, err) ==
    IF cond THEN [a EXCEPT !.errs = Append(@, err), !.made = Append(@, err)] ELSE a

\* the call returned r: `index` moved, errors.extend(r's errors)
Merge(a, r) ==
    [index |-> r.index, errs |-> a.errs \o r.errs, made |-> a.made \o r.made,
     panic |-> a.panic \/ r.panic]

\* return (node, errors)
Ret(a, node) ==
    [index |-> a.index, node |-> node, errs |-> a.errs, made |-> a.made, panic |-> a.panic]

\* `return callee(...)`: the callee's result, the local errors left behind
RetCall(a, r) ==
    [index |-> r.index, node |-> r.node, errs |-> r.errs, made |-> a.made \o r.made,
     panic |-> a.panic \/ r.panic]

(***************************************************************************)
(* Expressions.                                                            *)
(***************************************************************************)
\* evaluated only if the model leaves the vocabulary it was written for
Unreached == CHOOSE r \in {} : TRUE

\* `let x = e;`: The({ body : x \in {e} }) is body with x bound to the value of e
The(S) == CHOOSE r \in S : TRUE

RECURSIVE pratt_parsing(_, _, _)
RECURSIVE PrattLoop(_, _, _, _)
RECURSIVE parse_expression(_, _)
RECURSIVE parse_unary_operator(_, _)
RECURSIVE parse_parenthesized_expr(_, _)
RECURSIVE parse_tuple_expr_with_no_parens(_, _, _)
RECURSIVE TupleLoop(_, _, _, _)
RECURSIVE parse_bracesized_expr(_, _)
RECURSIVE SetLoop(_, _)
RECURSIVE parse_dict_expression(_, _, _)
RECURSIVE DictLoop(_, _)
RECURSIVE parse_if_else_expr(_, _)
RECURSIVE parse_assign(_, _, _, _)
RECURSIVE parse_function_call(_, _)
RECURSIVE CallArgsLoop(_, _)

BinaryOfOperator(val) ==
    CASE val = "Exponent" -> "Exponent" [] val = "Plus" -> "Add" [] val = "Minus" -> "Subtract"
      [] val = "Asterisk" -> "Multiply" [] val = "Divide" -> "Divide"
      [] val = "FloorDivision" -> "FloorDivision" [] val = "Modulo" -> "Modulo"
      [] val = "At" -> "At" [] val = "LessThan" -> "LessThan"
      [] val = "LessThanOrEqual" -> "LessThanOrEqual" [] val = "GreaterThan" -> "GreaterThan"
      [] val = "GreaterThanOrEqual" -> "GreaterThanOrEqual" [] val = "Equals" -> "Equals"
      [] val = "NotEquals" -> "NotEqual" [] val = "BitwiseOr" -> "BitwiseOr"
      [] val = "BitwiseAnd" -> "BitwiseAnd" [] val = "BitwiseXOR" -> "BitwiseXOR"
      [] val = "BitwiseLeftShift" -> "BitwiseLeftShift"
      [] val = "BitwiseRightShift" -> "BitwiseRightShift" [] val = "ColonEqual" -> "Walrus"
      [] OTHER -> ""

\* Ok(op) is [ok |-> TRUE, sort, op, index]; Err(error) is [ok |-> FALSE, err, index]
get_expr_operation(token, i) ==
    LET Binary(op, j) == [ok |-> TRUE, sort |-> "Binary", op |-> op, index |-> j]
        Unary(op) == [ok |-> TRUE, sort |-> "Unary", op |-> op, index |-> i]
    IN  IF token.kind = "Operator" /\ BinaryOfOperator(token.val) # ""
        THEN Binary(BinaryOfOperator(token.val), i)
        ELSE IF token.kind = "Dot" THEN Binary("AttributeRef", i)
        ELSE IF IsKw(token, "And") THEN Binary("LogicalAnd", i)
        ELSE IF IsKw(token, "Or") THEN Binary("LogicalOr", i)
        ELSE IF IsKw(token, "In") THEN Binary("In", i)
        ELSE IF IsKw(token, "If") THEN Binary("IfElse", i)
        ELSE IF IsKw(token, "Is")
        THEN (IF IsSome(i + 1) /\ IsKw(Get(i + 1), "Not") THEN Binary("IsNot", i + 1)
              ELSE Binary("Is", i))
        ELSE IF IsKw(token, "Not")
        THEN (IF IsSome(i + 1) /\ IsKw(Get(i + 1), "In") THEN Binary("NotIn", i + 1)
              ELSE Unary("LogicalNot"))
        ELSE IF IsKw(token, "Await") THEN Unary("Await")
        ELSE IF token.kind = "OpenParenthesis" THEN Unary("OpenParenthesis")
        ELSE IF token.kind = "OpenBrackets" THEN Unary("OpenBrackets")
        ELSE [ok |-> FALSE, index |-> i,
              err |-> SyntaxErr("SyntaxError: unexpected token", token.span)]

parse_postfix_expr(i, operation, lhs) ==
    CASE operation = "OpenParenthesis" -> parse_function_call(i + 1, lhs)

\* the prefix handlers with a fallback that leaves the unexpected token in place
PrattPrefixKeepingUnexpected(i, token, allowed) ==
    LET leaf(kind) == Ret(Adv(Start(i), 1), Expr(kind, token.lexeme, token.span, <<>>))
        has(flag) == flag \in allowed.expressions
    IN  IF token.kind = "Id" /\ has("ID") THEN leaf("Id")
        ELSE IF token.kind = "String" /\ has("STRING") THEN leaf("String")
        ELSE IF token.kind = "Number" /\ has("NUMBER") THEN leaf("Number")
        ELSE IF (IsKw(token, "True") \/ IsKw(token, "False")) /\ has("BOOL") THEN leaf("Bool")
        ELSE IF token.kind = "Ellipsis" /\ has("ELLIPSIS") THEN leaf("Ellipsis")
        ELSE IF IsKw(token, "None") /\ has("NONE") THEN leaf("None")
        ELSE IF IsKw(token, "Yield") /\ has("YIELD") THEN Unreached
        ELSE IF /\ \/ token.kind = "Operator" /\
                      token.val \in {"Plus", "Minus", "BitwiseNot", "Asterisk", "Exponent"}
                   \/ token.kind = "Keyword" /\ token.val \in {"Not", "Await", "Lambda"}
                /\ allowed.unary_op # {}
        THEN parse_unary_operator(i, token)
        ELSE IF token.kind = "OpenParenthesis" /\ has("PARENTHESIZED")
        THEN parse_parenthesized_expr(i, token)
        ELSE IF token.kind = "OpenBrackets" /\ has("LIST") THEN Unreached
        ELSE IF token.kind = "OpenBrace" /\ has("SET") THEN parse_bracesized_expr(i, token)
        ELSE Ret(Push(Start(i), TRUE,
                      SyntaxErr("SyntaxError: unexpected token", token.span)),
                 Expr("Invalid", "", token.span, <<>>))

\* the `match &token.kind` at the head of pratt_parsing
PrattPrefix(i, token, allowed) ==
    LET leaf(kind) == Ret(Adv(Start(i), 1), Expr(kind, token.lexeme, token.span, <<>>))
        has(flag) == flag \in allowed.expressions
    IN  IF token.kind = "Id" /\ has("ID") THEN leaf("Id")
        ELSE IF token.kind = "String" /\ has("STRING") THEN leaf("String")
        ELSE IF token.kind = "Number" /\ has("NUMBER") THEN leaf("Number")
        ELSE IF (IsKw(token, "True") \/ IsKw(token, "False")) /\ has("BOOL") THEN leaf("Bool")
        ELSE IF token.kind = "Ellipsis" /\ has("ELLIPSIS") THEN leaf("Ellipsis")
        ELSE IF IsKw(token, "None") /\ has("NONE") THEN leaf("None")
        ELSE IF IsKw(token, "Yield") /\ has("YIELD") THEN Unreached
        ELSE IF /\ \/ token.kind = "Operator" /\
                      token.val \in {"Plus", "Minus", "BitwiseNot", "Asterisk", "Exponent"}
                   \/ token.kind = "Keyword" /\ token.val \in {"Not", "Await", "Lambda"}
                /\ allowed.unary_op # {}
        THEN parse_unary_operator(i, token)
        ELSE IF token.kind = "OpenParenthesis" /\ has("PARENTHESIZED")
        THEN parse_parenthesized_expr(i, token)
        ELSE IF token.kind = "OpenBrackets" /\ has("LIST") THEN Unreached
        ELSE IF token.kind = "OpenBrace" /\ has("SET") THEN parse_bracesized_expr(i, token)
        ELSE Ret(Push(Adv(Start(i), 1), TRUE,
                      SyntaxErr("SyntaxError: unexpected token", token.span)),
                 Expr("Invalid", "", token.span, <<>>))

pratt_parsing(i, min_precedence_weight, allowed_expr) ==
    IF ~IsSome(i) THEN Ret(Unwrap(Start(i)), Expr("Invalid", "", DefaultSpan, <<>>))
    ELSE The({ IF prefix.panic THEN prefix
               ELSE IF allowed_expr.binary_op = {} \/ allowed_expr.unary_op = {} THEN prefix
               ELSE PrattLoop(Merge(Start(i), prefix), prefix.node, min_precedence_weight,
                              allowed_expr)
               : prefix \in {PrattPrefix(i, Get(i), allowed_expr)} })

\* the `while` with the left binding power as the threshold of the right operand
PrattLoopLeftPowerThreshold(a, lhs, min_bp, allowed) ==
    LET token == Get(a.index)
        op == get_expr_operation(token, a.index)
        a1 == [a EXCEPT !.index = op.index]
        lhs_bp == postfix_binding_power(op.op)
        bp == infix_binding_power(op.op)
        a2 == Unwrap(Adv(a1, 1))
        next_token == Get(a2.index)
    IN  IF a.panic THEN Ret(a, lhs)
        ELSE IF ~(IsSome(a.index) /\ ~is_token_end_of_expr(token)
                  /\ ~(is_assign(token) \/ is_augassign(token)))
        THEN Ret(a, lhs)
        ELSE IF ~op.ok THEN PrattLoop(Adv(Push(a, TRUE, op.err), 1), lhs, min_bp, allowed)
        ELSE IF allowed.unary_op # {} /\ op.sort = "Unary"
        THEN (IF lhs_bp = <<>> THEN Ret([a1 EXCEPT !.panic = TRUE], lhs)
              ELSE IF lhs_bp[1] < min_bp THEN Ret(a1, lhs)
              ELSE The({ PrattLoop(Merge(a1, post), post.node, min_bp, allowed)
                         : post \in {parse_postfix_expr(a1.index, op.op, lhs)} }))
        ELSE IF allowed.binary_op # {} /\ op.sort = "Binary"
        THEN (IF bp[1] < min_bp THEN Ret(a1, lhs)
              ELSE IF op.op = "IfElse"
              THEN (IF "IF_ELSE" \in allowed.binary_op
                    THEN The({ PrattLoop(Merge(a1, ifelse), ifelse.node, min_bp, allowed)
                               : ifelse \in {parse_if_else_expr(a1.index, lhs)} })
                    ELSE Ret(a1, lhs))
              ELSE IF a2.panic THEN Ret(a2, lhs)
              ELSE IF ~is_token_start_of_expr(next_token)
              THEN PrattLoop(Push(a2, TRUE,
                                  SyntaxErr("SyntaxError: missing rhs in operation",
                                      [next_token.span EXCEPT
                                          !.column_start = lhs.span.column_end])),
                             lhs, min_bp, allowed)
              ELSE The({ PrattLoop(Merge(a2, rhs),
                                   Expr("BinaryOp", op.op,
                                        [lhs.span EXCEPT
                                            !.column_end = rhs.node.span.column_end],
                                        <<lhs, rhs.node>>),
                                   min_bp, allowed)
                         : rhs \in {pratt_parsing(a2.index, bp[1], allowed)} }))
        ELSE Unreached

\* the `while` of pratt_parsing, from the state a with `lhs` parsed so far
PrattLoop(a, lhs, min_bp, allowed) ==
    LET token == Get(a.index)
        op == get_expr_operation(token, a.index)
        a1 == [a EXCEPT !.index = op.index]
        lhs_bp == postfix_binding_power(op.op)
        bp == infix_binding_power(op.op)
        a2 == Unwrap(Adv(a1, 1))
        next_token == Get(a2.index)
    IN  IF a.panic THEN Ret(a, lhs)
        ELSE IF ~(IsSome(a.index) /\ ~is_token_end_of_expr(token)
                  /\ ~(is_assign(token) \/ is_augassign(token)))
        THEN Ret(a, lhs)
        ELSE IF ~op.ok THEN PrattLoop(Adv(Push(a, TRUE, op.err), 1), lhs, min_bp, allowed)
        ELSE IF allowed.unary_op # {} /\ op.sort = "Unary"
        THEN (IF lhs_bp = <<>> THEN Ret([a1 EXCEPT !.panic = TRUE], lhs)
              ELSE IF lhs_bp[1] < min_bp THEN Ret(a1, lhs)
              ELSE The({ PrattLoop(Merge(a1, post), post.node, min_bp, allowed)
                         : post \in {parse_postfix_expr(a1.index, op.op, lhs)} }))
        ELSE IF allowed.binary_op # {} /\ op.sort = "Binary"
        THEN (IF bp[1] < min_bp THEN Ret(a1, lhs)
              ELSE IF op.op = "IfElse"
              THEN (IF "IF_ELSE" \in allowed.binary_op
                    THEN The({ PrattLoop(Merge(a1, ifelse), ifelse.node, min_bp, allowed)
                               : ifelse \in {parse_if_else_expr(a1.index, lhs)} })
                    ELSE Ret(a1, lhs))
              ELSE IF a2.panic THEN Ret(a2, lhs)
              ELSE IF ~is_token_start_of_expr(next_token)
              THEN PrattLoop(Push(a2, TRUE,
                                  SyntaxErr("SyntaxError: missing rhs in operation",
                                      [next_token.span EXCEPT
                                          !.column_start = lhs.span.column_end])),
                             lhs, min_bp, allowed)
              ELSE The({ PrattLoop(Merge(a2, rhs),
                                   Expr("BinaryOp", op.op,
                                        [lhs.span EXCEPT
                                            !.column_end = rhs.node.span.column_end],
                                        <<lhs, rhs.node>>),
                                   min_bp, allowed)
                         : rhs \in {pratt_parsing(a2.index, bp[2], allowed)} }))
        ELSE Unreached

parse_expression(i, allowed_expr) ==
    LET Eats(a2, expr) ==
            Ret(IF IsSome(a2.index) /\ Get(a2.index).kind \in {"NewLine", "SemiColon"}
                THEN Adv(a2, 1) ELSE a2,
                expr)
        IsTuple(a0) ==
            /\ ~a0.panic /\ IsSome(a0.index) /\ Get(a0.index).kind = "Comma"
            /\ {"TUPLE", "TUPLE_NO_PARENS"} \subseteq allowed_expr.expressions
        IsAssign(a1) ==
            /\ IsSome(a1.index) /\ "ASSIGN" \in allowed_expr.expressions
            /\ \/ is_assign(Get(a1.index)) \/ is_augassign(Get(a1.index))
               \/ Get(a1.index).kind = "Colon"
    IN  The({ The({ LET a0 == Merge(Start(i), first)
                        a1 == IF IsTuple(a0) THEN Merge(a0, t) ELSE a0
                        expr == IF IsTuple(a0)
                                THEN Expr("Tuple", "", t.node.span, <<first.node>> \o t.node.kids)
                                ELSE first.node
                    IN  IF a1.panic THEN Ret(a1, expr)
                        ELSE IF IsAssign(a1)
                        THEN The({ IF s.panic THEN Ret(Merge(a1, s), s.node)
                                   ELSE Eats(Merge(a1, s), s.node)
                                   : s \in {parse_assign(a1.index, Get(a1.index), expr,
                                                         allowed_expr)} })
                        ELSE Eats(a1, expr)
                    : t \in {IF IsTuple(Merge(Start(i), first))
                             THEN parse_tuple_expr_with_no_parens(
                                      Merge(Start(i), first).index + 1, first.node.span,
                                      allowed_expr)
                             ELSE first} })
              : first \in {pratt_parsing(i, 0, allowed_expr)} })
UnaryOfToken(token) ==
    CASE IsOp(token, "BitwiseNot") -> "BitwiseNot" [] IsOp(token, "Plus") -> "Plus"
      [] IsOp(token, "Minus") -> "Minus" [] IsOp(token, "Asterisk") -> "UnpackIterable"
      [] IsOp(token, "Exponent") -> "UnpackDictionary" [] IsKw(token, "Not") -> "LogicalNot"
      [] IsKw(token, "Await") -> "Await" [] IsKw(token, "Lambda") -> "Lambda"

\* the span from the start of `from` to the end of `to`
SpanBetween(from, to) ==
    [row_start |-> from.row_start, row_end |-> to.row_end,
     column_start |-> from.column_start, column_end |-> to.column_end]

parse_unary_operator(i, token) ==
    LET op == UnaryOfToken(token)
    IN  IF op = "Lambda" THEN Unreached
        ELSE The({ Ret(Merge(Start(i), rhs),
                       Expr("UnaryOp", op, SpanBetween(token.span, rhs.node.span),
                            <<rhs.node>>))
                   : rhs \in {pratt_parsing(i + 1, prefix_binding_power(op),
                                  remove_expression(ParseExprBitflags_all, {"ASSIGN"}))} })

parse_parenthesized_expr(i, token) ==
    LET a0 == Unwrap(Adv(Start(i), 1))
        next_token == Get(i + 1)
        a1 == Push(Push(a0, IsOp(next_token, "Asterisk"),
                        SyntaxErr("SyntaxError: cannot use starred expression inside parenthesis!",
                                  next_token.span)),
                   IsOp(next_token, "Exponent"),
                   SyntaxErr("SyntaxError: cannot use double starred expression inside parenthesis!",
                             next_token.span))
    IN  IF a0.panic THEN Ret(a0, Expr("Invalid", "", DefaultSpan, <<>>))
        ELSE The({ LET a2 == Unwrap(Merge(a1, e))
                       close == Get(a2.index)
                   IN  IF a2.panic THEN Ret(a2, e.node)
                       ELSE IF IsKw(close, "For") THEN Unreached
                       ELSE Ret(IF close.kind # "CloseParenthesis"
                                THEN Push(a2, TRUE,
                                          SyntaxErr("SyntaxError: expecting ')'", close.span))
                                ELSE Adv(a2, 1),
                                set_span(e.node, SpanBetween(token.span, close.span)))
                   : e \in {parse_expression(a1.index,
                                remove_expression(ParseExprBitflags_all, {"ASSIGN"}))} })

\* "SyntaxError: expected comma", one column wide, right after the expression
ExpectedComma(expr_span) ==
    SyntaxErr("SyntaxError: expected comma",
              [expr_span EXCEPT !.column_start = expr_span.column_end,
                                !.column_end = expr_span.column_end + 1])

\* the `loop` with each element replacing the list instead of being pushed onto it
TupleLoopKeepingLast(a, expressions, tuple_span, allowed) ==
    LET a1 == Unwrap(a)
    IN  IF a1.panic \/ ~is_token_start_of_expr(Get(a.index))
        THEN [st |-> a1, items |-> expressions, span |-> tuple_span]
        ELSE The({ LET a2 == Unwrap(Merge(a1, r))
                       items == << r.node >>
                       span1 == [tuple_span EXCEPT !.column_end = r.node.span.column_end]
                       after == Get(a2.index)
                   IN  IF a2.panic THEN [st |-> a2, items |-> items, span |-> span1]
                       ELSE IF after.kind = "Comma"
                       THEN TupleLoop(Adv(a2, 1), items,
                                      [span1 EXCEPT !.column_end = after.span.column_end],
                                      allowed)
                       ELSE IF ~is_token_start_of_expr(after)
                       THEN [st |-> a2, items |-> items, span |-> span1]
                       ELSE TupleLoop(Push(a2, TRUE, ExpectedComma(r.node.span)), items,
                                      span1, allowed)
                   : r \in {pratt_parsing(a.index, 0, allowed)} })

\* the `loop` of parse_tuple_expr_with_no_parens: [st, items, span]
TupleLoop(a, expressions, tuple_span, allowed) ==
    LET a1 == Unwrap(a)
    IN  IF a1.panic \/ ~is_token_start_of_expr(Get(a.index))
        THEN [st |-> a1, items |-> expressions, span |-> tuple_span]
        ELSE The({ LET a2 == Unwrap(Merge(a1, r))
                       items == Append(expressions, r.node)
                       span1 == [tuple_span EXCEPT !.column_end = r.node.span.column_end]
                       after == Get(a2.index)
                   IN  IF a2.panic THEN [st |-> a2, items |-> items, span |-> span1]
                       ELSE IF after.kind = "Comma"
                       THEN TupleLoop(Adv(a2, 1), items,
                                      [span1 EXCEPT !.column_end = after.span.column_end],
                                      allowed)
                       ELSE IF ~is_token_start_of_expr(after)
                       THEN [st |-> a2, items |-> items, span |-> span1]
                       ELSE TupleLoop(Push(a2, TRUE, ExpectedComma(r.node.span)), items,
                                      span1, allowed)
                   : r \in {pratt_parsing(a.index, 0, allowed)} })

parse_tuple_expr_with_no_parens(i, tuple_span_start, allowed_expr) ==
    The({ Ret(Unwrap(l.st),
              Expr("Tuple", "",
                   [l.span EXCEPT !.row_end = Get(l.st.index).span.row_end], l.items))
          : l \in {TupleLoop(Start(i), <<>>,
                             [DefaultSpan EXCEPT
                                 !.row_start = tuple_span_start.row_start,
                                 !.column_start = tuple_span_start.column_start],
                             allowed_expr)} })

\* DictItemType::KeyValue and DictItemType::Unpack
KeyValue(lhs, rhs) == Node("Part", "KeyValue", "", DefaultSpan, <<lhs, rhs>>)

Unpack(lhs) == Node("Part", "Unpack", "", DefaultSpan, <<lhs>>)

InvalidExpr == Expr("Invalid", "", DefaultSpan, <<>>)

\* the `while` of parse_bracesized_expr that reads the items of a set: [st, items]
SetLoop(a, expressions) ==
    LET a1 == Unwrap(Adv(a, 1))
    IN  IF a.panic \/ ~(IsSome(a.index) /\ Get(a.index).kind = "Comma")
        THEN [st |-> a, items |-> expressions]
        ELSE IF a1.panic \/ Get(a1.index).kind = "CloseBrace"
        THEN [st |-> a1, items |-> expressions]
        ELSE The({ SetLoop(Merge(a1, r), Append(expressions, r.node))
                   : r \in {pratt_parsing(a1.index, 0, ParseExprBitflags_all)} })

parse_bracesized_expr(i, token) ==
    LET brace_span == token.span
        a0 == Unwrap(Adv(Start(i), 1))
        first == Get(i + 1)
        \* the error pushed before `return self.parse_dict_expression(...)`
        Expecting(a) ==
            Push(a, Get(a.index).kind # "Comma",
                 SyntaxErr("SyntaxError: expecting ','", Get(a.index).span))
    IN  IF a0.panic THEN Ret(a0, InvalidExpr)
        ELSE IF first.kind = "CloseBrace"
        THEN Ret(Adv(a0, 1),
                 Expr("Dict", "",
                      [brace_span EXCEPT !.row_end = first.span.row_end,
                                         !.column_end = first.span.column_end], <<>>))
        ELSE The({
            LET b1 == Merge(a0, lhs)
                a == Unwrap(b1)
            IN  IF IsOp(first, "Exponent")
                THEN (IF a.panic THEN Ret(a, InvalidExpr)
                      \* `return`: the local `errors` are left behind
                      ELSE The({ RetCall(Expecting(a), d)
                                 : d \in {parse_dict_expression(a.index, Unpack(lhs.node),
                                                                brace_span)} }))
                ELSE IF b1.panic THEN Ret(b1, InvalidExpr)
                ELSE IF IsSome(b1.index) /\ Get(b1.index).kind = "Colon"
                THEN The({ The({ IF v.panic THEN Ret(v, InvalidExpr)
                                 ELSE The({ RetCall(Expecting(v), d)
                                            : d \in {parse_dict_expression(
                                                         v.index,
                                                         KeyValue(lhs.node, rhs.node),
                                                         brace_span)} })
                                 : v \in {Unwrap(Merge(Adv(b1, 1), rhs))} })
                           : rhs \in {pratt_parsing(b1.index + 1, 0,
                                                    ParseExprBitflags_all)} })
                ELSE The({ LET c1 == Unwrap(l.st)
                               close == Get(c1.index)
                           IN  IF c1.panic THEN Ret(c1, InvalidExpr)
                               ELSE Ret(Adv(Push(c1, close.kind # "CloseBrace",
                                                 SyntaxErr("SyntaxError: expecting '}'",
                                                           close.span)), 1),
                                        Expr("Set", "", SpanBetween(brace_span, close.span),
                                             l.items))
                           : l \in {SetLoop(b1, <<lhs.node>>)} })
            : lhs \in {pratt_parsing(a0.index, 0, ParseExprBitflags_all)} })

\* the `while` of parse_dict_expression: [st, items]
DictLoop(a, dict_items) ==
    LET a0 == Unwrap(a)
        a1 == Unwrap(Adv(a0, 1))
        token == Get(a1.index)
        a2 == Push(a1, IsOp(token, "Asterisk"),
                   SyntaxErr("SyntaxError: can't unpack iterable inside dictionary!",
                             token.span))
    IN  IF a0.panic \/ Get(a0.index).kind # "Comma" THEN [st |-> a0, items |-> dict_items]
        ELSE IF a1.panic THEN [st |-> a1, items |-> dict_items]
        ELSE IF token.kind = "CloseBrace" THEN [st |-> a2, items |-> dict_items]
        ELSE The({
            LET a3 == Unwrap(Merge(a2, lhs))
                after == Get(a3.index)
                a4 == Push(a3, after.kind # "Colon",
                           SyntaxErr("SyntaxError: expecting ':'", after.span))
            IN  IF a3.panic THEN [st |-> a3, items |-> dict_items]
                ELSE IF after.kind = "CloseBrace"
                THEN [st |-> a3, items |-> Append(dict_items, Unpack(lhs.node))]
                ELSE IF after.kind = "Comma"
                THEN DictLoop(Adv(a3, 1), Append(dict_items, Unpack(lhs.node)))
                ELSE The({ DictLoop(Merge(Adv(a4, 1), rhs),
                                    Append(dict_items, KeyValue(lhs.node, rhs.node)))
                           : rhs \in {pratt_parsing(a4.index + 1, 0,
                                                    ParseExprBitflags_all)} })
            : lhs \in {pratt_parsing(a2.index, 0, ParseExprBitflags_all)} })

parse_dict_expression(i, lhs, brace_span) ==
    The({ LET a == Unwrap(l.st)
              token == Get(a.index)
          IN  IF a.panic THEN Ret(a, InvalidExpr)
              ELSE Ret(Adv(Push(a, token.kind # "CloseBrace",
                                SyntaxErr("SyntaxError: expecting '}'", token.span)), 1),
                       Expr("Dict", "", SpanBetween(brace_span, token.span), l.items))
          : l \in {DictLoop(Start(i), <<lhs>>)} })
parse_if_else_expr(i, lhs) ==
    The({ LET a1 == Unwrap(Merge(Start(i), condition))
              token == Get(a1.index)
              a2 == Push(a1, ~IsKw(token, "Else"),
                         SyntaxErr("SyntaxError: expecting \"else\" keyword", token.span))
          IN  IF a1.panic THEN Ret(a1, lhs)
              ELSE The({ Ret(Merge(Adv(a2, 1), rhs),
                             Expr("IfElse", "", SpanBetween(lhs.span, rhs.node.span),
                                  <<lhs, condition.node, rhs.node>>))
                         : rhs \in {pratt_parsing(a2.index + 1, 0, ParseExprBitflags_all)} })
          : condition \in {pratt_parsing(i + 1, 0, ParseExprBitflags_all)} })

\* skip_line without the step over the NewLine token
RECURSIVE skip_line_to_newline(_)
skip_line_to_newline(i) ==
    IF IsSome(i) /\ Get(i).kind # "NewLine" THEN skip_line_to_newline(i + 1) ELSE i

RECURSIVE skip_line(_)
skip_line(i) ==
    IF IsSome(i) /\ Get(i).kind # "NewLine" THEN skip_line(i + 1) ELSE i + 1

parse_assign(i, token, lhs, allowed_expr_in_rhs) ==
    LET Invalid(a, span, msg) ==
            Ret(Push(a, TRUE, SyntaxErr(msg, span)), Expr("Invalid", "", span, <<>>))
    IN  IF lhs.kind = "Tuple" /\ token.kind = "Colon"
        THEN Invalid([Start(i) EXCEPT !.index = skip_line(i)],
                     SpanBetween(lhs.span, token.span),
                     "SyntaxError: only single target (not tuple) can be annotated")
        ELSE IF token.kind = "Colon"
        \* lhs: typehint [= rhs]
        THEN The({
            LET a1 == Unwrap(Merge(Start(i), typehint))
                hint_span == SpanBetween(lhs.span, typehint.node.span)
                after == Get(a1.index)
            IN  IF a1.panic THEN Ret(a1, lhs)
                ELSE IF is_augassign(after)
                THEN Invalid([a1 EXCEPT !.index = skip_line(a1.index)], hint_span,
                             "SyntaxError: invalid syntax, typehint not allowed in this kind of expression")
                ELSE IF ~is_token_end_of_expr(after)
                THEN The({ Ret(Merge(Adv(a1, 1), rhs),
                               Expr("AnnAssign", "",
                                    [hint_span EXCEPT
                                        !.column_end = rhs.node.span.column_end,
                                        !.row_end = rhs.node.span.row_end],
                                    <<lhs, typehint.node, rhs.node>>))
                           : rhs \in {parse_expression(a1.index + 1, allowed_expr_in_rhs)} })
                ELSE Ret(a1, Expr("AnnAssign", "", hint_span, <<lhs, typehint.node>>))
            : typehint \in {parse_expression(i + 1,
                                remove_expression(ParseExprBitflags_all, {"ASSIGN"}))} })
        \* lhs = rhs, lhs += rhs
        ELSE The({ Ret(Merge(Start(i), rhs),
                       Expr(IF is_assign(token) THEN "Assign" ELSE "AugAssing", token.val,
                            SpanBetween(lhs.span, rhs.node.span), <<lhs, rhs.node>>))
                   : rhs \in {parse_expression(i + 1, allowed_expr_in_rhs)} })

\* the `loop` of parse_function_call that reads the arguments: [st, items]
CallArgsLoop(a, args) ==
    LET a1 == Unwrap(a)
    IN  IF a1.panic \/ ~is_token_start_of_expr(Get(a.index)) THEN [st |-> a1, items |-> args]
        ELSE The({ LET a2 == Unwrap(Merge(a1, e))
                       items == Append(args, e.node)
                       after == Get(a2.index)
                   IN  IF a2.panic THEN [st |-> a2, items |-> items]
                       ELSE IF after.kind = "Comma" THEN CallArgsLoop(Adv(a2, 1), items)
                       ELSE IF is_token_end_of_expr(after) THEN [st |-> a2, items |-> items]
                       ELSE CallArgsLoop(Push(a2, TRUE, ExpectedComma(e.node.span)), items)
                   : e \in {parse_expression(a.index,
                                remove_expression(ParseExprBitflags_all,
                                                  {"TUPLE_NO_PARENS"}))} })

parse_function_call(i, lhs) ==
    The({ LET a == Unwrap(l.st)
              token == Get(a.index)
          IN  IF a.panic THEN Ret(a, lhs)
              ELSE Ret(IF token.kind # "CloseParenthesis"
                       THEN Push(a, TRUE,
                                 SyntaxErr("SyntaxError: expecting a ')'",
                                           [lhs.span EXCEPT
                                               !.column_start = lhs.span.column_end,
                                               !.column_end = lhs.span.column_end + 1]))
                       ELSE Adv(a, 1),
                       Expr("Call", "",
                            [token.span EXCEPT !.row_start = lhs.span.row_start,
                                               !.column_start = lhs.span.column_start],
                            <<lhs>> \o l.items))
          : l \in {CallArgsLoop(Start(i), <<>>)} })

(***************************************************************************)
(* Statements.                                                             *)
(***************************************************************************)
RECURSIVE parse_statements(_)
RECURSIVE parse_function(_)
RECURSIVE parse_return(_)
RECURSIVE parse_function_parameters(_)
RECURSIVE ParamsLoop(_, _)
RECURSIVE parse_block(_)
RECURSIVE BlockLoop(_, _, _)
RECURSIVE parse_if(_)
RECURSIVE ElifLoop(_, _, _)
RECURSIVE parse_class(_)
RECURSIVE parse_base_classes(_)
RECURSIVE BasesLoop(_, _)

Stmt(kind, val, span, kids) == Node("Statement", kind, val, span, kids)

Part(kind, val, span, kids) == Node("Part", kind, val, span, kids)

InvalidStmt == Stmt("Invalid", "", DefaultSpan, <<>>)

\* Span { row_end, column_end, ..Default::default() } taken from a block
EndOf(block) ==
    [DefaultSpan EXCEPT !.row_end = block.span.row_end, !.column_end = block.span.column_end]

\* `if token.kind != Colon { errors.push(..) } else { *index += 1 }`
ExpectColon(a) ==
    IF Get(a.index).kind # "Colon"
    THEN Push(a, TRUE, SyntaxErr("SyntaxError: expecting ':'", Get(a.index).span))
    ELSE Adv(a, 1)

\* the `loop` of parse_function_parameters: [st, items]
ParamsLoop(a, parameters) ==
    LET a0 == Unwrap(a)
        token == Get(a.index)
        a1 == Unwrap(Adv(a0, 1))
        has_default == IsOp(Get(a1.index), "Assign")
    IN  IF a0.panic THEN [st |-> a0, items |-> parameters]
        ELSE IF token.kind = "Id"
        THEN (IF a1.panic THEN [st |-> a1, items |-> parameters]
              ELSE The({
                  LET a2 == Unwrap(IF has_default THEN Merge(a1, e) ELSE a1)
                      func_parameter ==
                          IF has_default
                          THEN Part("FuncParameter", token.lexeme,
                                    [token.span EXCEPT
                                        !.column_end = e.node.span.column_end,
                                        !.row_end = e.node.span.row_end],
                                    <<e.node>>)
                          ELSE Part("FuncParameter", token.lexeme, token.span, <<>>)
                  IN  IF a2.panic \/ Get(a2.index).kind # "Comma"
                      THEN [st |-> a2, items |-> Append(parameters, func_parameter)]
                      ELSE ParamsLoop(Adv(a2, 1), Append(parameters, func_parameter))
                  : e \in {IF has_default
                           THEN parse_expression(a1.index + 1,
                                    remove_expression(ParseExprBitflags_all,
                                                      {"TUPLE_NO_PARENS"}))
                           ELSE Ret(a1, InvalidExpr)} }))
        ELSE IF token.kind = "Operator" /\ token.val \in {"Asterisk", "Exponent", "Divide"}
        THEN Unreached
        ELSE ParamsLoop(Push(Adv(a0, 1), TRUE,
                             SyntaxErr("SyntaxError: unexpected token", token.span)),
                        parameters)

parse_function_parameters(i) ==
    The({ Ret(l.st, Part("Parameters", "", DefaultSpan, l.items))
          : l \in {ParamsLoop(Start(i), <<>>)} })

parse_function(i) ==
    LET a0 == Unwrap(Start(i))
        token == Get(i)
        name == IF token.kind = "Id" THEN token.lexeme ELSE <<>>
        a2 == Unwrap(Adv(Push(a0, token.kind # "Id",
                              SyntaxErr("SyntaxError: invalid function name", token.span)),
                         1))
        a4 == Unwrap(IF Get(a2.index).kind # "OpenParenthesis"
                     THEN Push(a2, TRUE,
                               SyntaxErr("SyntaxError: expecting '('", Get(a2.index).span))
                     ELSE Adv(a2, 1))
        has_parameters == Get(a4.index).kind # "CloseParenthesis"
    IN  IF a0.panic THEN Ret(a0, InvalidStmt)
        ELSE IF a2.panic THEN Ret(a2, InvalidStmt)
        ELSE IF a4.panic THEN Ret(a4, InvalidStmt)
        ELSE The({
            LET a5 == IF has_parameters THEN Unwrap(Merge(a4, parameters)) ELSE a4
                a7 == Unwrap(Adv(Push(a5, Get(a5.index).kind # "CloseParenthesis",
                                      SyntaxErr("SyntaxError: expecting ')'",
                                                Get(a5.index).span)), 1))
                a8 == ExpectColon(a7)
            IN  IF a5.panic THEN Ret(a5, InvalidStmt)
                ELSE IF a7.panic THEN Ret(a7, InvalidStmt)
                ELSE The({ Ret(Merge(a8, block),
                               Stmt("FunctionDef", name, EndOf(block.node),
                                    (IF has_parameters THEN parameters.node.kids ELSE <<>>)
                                        \o <<block.node>>))
                           : block \in {parse_block(a8.index)} })
            : parameters \in {IF has_parameters THEN parse_function_parameters(a4.index)
                              ELSE Ret(a4, InvalidStmt)} })

\* the `while let` of parse_block: [st, items, span]
BlockLoop(a, statements, span) ==
    LET a1 == IF Get(a.index).kind = "NewLine" THEN Unwrap(Adv(a, 1)) ELSE a
    IN  IF a.panic \/ ~IsSome(a.index) THEN [st |-> a, items |-> statements, span |-> span]
        ELSE IF a1.panic THEN [st |-> a1, items |-> statements, span |-> span]
        ELSE IF Get(a1.index).kind = "Dedent"
        THEN [st |-> Adv(a1, 1), items |-> statements, span |-> span]
        ELSE The({ BlockLoop(Merge(a1, s), Append(statements, s.node),
                             [span EXCEPT !.row_end = s.node.span.row_end,
                                          !.column_end = s.node.span.column_end])
                   : s \in {parse_statements(a1.index)} })

parse_block(i) ==
    LET a0 == Unwrap(Start(i))
        a2 == Unwrap(Adv(Push(a0, Get(i).kind # "NewLine",
                              PythonError("Indentation", "SyntaxError: expecting 'NEWLINE'",
                                          Get(i).span)), 1))
        a4 == Unwrap(Adv(Push(a2, Get(a2.index).kind # "Indent",
                              PythonError("Indentation",
                                  "Expected an indented block after function definition",
                                  Get(a2.index).span)), 1))
        first == Get(a4.index)
    IN  IF a0.panic THEN Ret(a0, InvalidStmt)
        ELSE IF a2.panic THEN Ret(a2, InvalidStmt)
        ELSE IF a4.panic THEN Ret(a4, InvalidStmt)
        ELSE The({ Ret(l.st, Part("Block", "", l.span, l.items))
                   : l \in {BlockLoop(a4, <<>>,
                                [DefaultSpan EXCEPT
                                    !.column_start = first.span.column_start,
                                    !.row_start = first.span.row_start])} })

\* the `while token.kind == Elif` of parse_if: [st, items, span]
ElifLoop(a, elif_stms, span) ==
    LET token == Get(a.index)
    IN  IF a.panic \/ ~IsKw(token, "Elif")
        THEN [st |-> a, items |-> elif_stms, span |-> span]
        ELSE The({
            LET a1 == Unwrap(Merge(a, condition))
                a2 == ExpectColon(a1)
            IN  IF a1.panic THEN [st |-> a1, items |-> elif_stms, span |-> span]
                ELSE The({
                    LET a3 == Unwrap(Merge(a2, block))
                    IN  IF a3.panic THEN [st |-> a3, items |-> elif_stms, span |-> span]
                        ELSE ElifLoop(a3,
                                 Append(elif_stms,
                                        Part("ElIf", "",
                                             SpanBetween(token.span, block.node.span),
                                             <<condition.node, block.node>>)),
                                 [span EXCEPT !.column_end = block.node.span.column_end,
                                              !.row_end = block.node.span.row_end])
                    : block \in {parse_block(a2.index)} })
            : condition \in {parse_expression(a.index + 1,
                                 remove_expression(ParseExprBitflags_all, {"ASSIGN"}))} })

parse_if(i) ==
    The({
        LET a1 == Unwrap(Merge(Start(i), condition))
            a2 == ExpectColon(a1)
        IN  IF a1.panic THEN Ret(a1, InvalidStmt)
            ELSE The({
                LET a3 == Unwrap(Merge(a2, block))
                IN  IF a3.panic THEN Ret(a3, InvalidStmt)
                    ELSE The({
                        LET a4 == l.st
                            token == Get(a4.index)
                            kids == <<condition.node, block.node>> \o l.items
                            a5 == Unwrap(Adv(a4, 1))
                            a6 == ExpectColon(a5)
                        IN  IF a4.panic THEN Ret(a4, InvalidStmt)
                            ELSE IF ~IsKw(token, "Else")
                            THEN Ret(a4, Stmt("If", "", l.span, kids))
                            ELSE IF a5.panic THEN Ret(a5, InvalidStmt)
                            ELSE The({
                                Ret(Merge(a6, else_block),
                                    Stmt("If", "",
                                         [l.span EXCEPT
                                             !.column_end = else_block.node.span.column_end,
                                             !.row_end = else_block.node.span.row_end],
                                         Append(kids,
                                                Part("Else", "",
                                                     SpanBetween(token.span,
                                                                 else_block.node.span),
                                                     <<else_block.node>>))))
                                : else_block \in {parse_block(a6.index)} })
                        : l \in {ElifLoop(a3, <<>>, EndOf(block.node))} })
                : block \in {parse_block(a2.index)} })
        : condition \in {parse_expression(i,
                             remove_expression(ParseExprBitflags_all, {"ASSIGN"}))} })

\* the `loop` of parse_base_classes: [st, items]
BasesLoop(a, bases) ==
    The({ LET a1 == Unwrap(Merge(a, e))
          IN  IF a1.panic \/ Get(a1.index).kind # "Comma"
              THEN [st |-> a1, items |-> Append(bases, e.node)]
              ELSE BasesLoop(a1, Append(bases, e.node))
          : e \in {parse_expression(a.index,
                       remove_expression(ParseExprBitflags_all,
                                         {"TUPLE_NO_PARENS", "ASSIGN"}))} })

parse_base_classes(i) ==
    The({ Ret(l.st, Part("Bases", "", DefaultSpan, l.items))
          : l \in {BasesLoop(Start(i), <<>>)} })

parse_class(i) ==
    LET a0 == Unwrap(Start(i))
        token == Get(i)
        name == IF token.kind = "Id" THEN token.lexeme ELSE <<>>
        a2 == Unwrap(IF token.kind = "Id" THEN Adv(a0, 1)
                     ELSE Push(a0, TRUE,
                               SyntaxErr("Syntax Error: expected identifier", token.span)))
        has_parens == Get(a2.index).kind = "OpenParenthesis"
        has_bases == IsSome(a2.index + 1) /\ is_token_start_of_expr(Get(a2.index + 1))
    IN  IF a0.panic THEN Ret(a0, InvalidStmt)
        ELSE IF a2.panic THEN Ret(a2, InvalidStmt)
        ELSE The({
            LET p2 == Unwrap(IF has_bases THEN Merge(Adv(a2, 1), base_classes)
                             ELSE Adv(a2, 1))
                a3 == Unwrap(IF ~has_parens THEN a2
                             ELSE IF Get(p2.index).kind # "CloseParenthesis"
                             THEN Push(p2, TRUE,
                                       SyntaxErr("SyntaxError: expecting ')'",
                                                 Get(p2.index).span))
                             ELSE Adv(p2, 1))
                a4 == ExpectColon(a3)
                bases == IF has_parens /\ has_bases THEN base_classes.node.kids ELSE <<>>
            IN  IF has_parens /\ p2.panic THEN Ret(p2, InvalidStmt)
                ELSE IF a3.panic THEN Ret(a3, InvalidStmt)
                ELSE The({ Ret(Merge(a4, block),
                               Stmt("Class", name, EndOf(block.node),
                                    bases \o <<block.node>>))
                           : block \in {parse_block(a4.index)} })
            : base_classes \in {IF has_parens /\ has_bases
                                THEN parse_base_classes(a2.index + 1)
                                ELSE Ret(a2, InvalidStmt)} })

\* parse_return that never reads the value of the statement
parse_return_without_value(i) ==
    LET a0 == Unwrap(Start(i))
        token == Get(i)
        span0 == [DefaultSpan EXCEPT !.column_end = token.span.column_end,
                                     !.row_end = token.span.row_end]
    IN  IF a0.panic THEN Ret(a0, InvalidStmt)
        ELSE Ret(a0, Stmt("Return", "", span0, <<>>))

parse_return(i) ==
    LET a0 == Unwrap(Start(i))
        token == Get(i)
        span0 == [DefaultSpan EXCEPT !.column_end = token.span.column_end,
                                     !.row_end = token.span.row_end]
    IN  IF a0.panic THEN Ret(a0, InvalidStmt)
        ELSE IF ~is_token_start_of_expr(token) THEN Ret(a0, Stmt("Return", "", span0, <<>>))
        ELSE The({ Ret(Merge(a0, e),
                       Stmt("Return", "",
                            [span0 EXCEPT !.column_end = e.node.span.column_end,
                                          !.row_end = e.node.span.row_end],
                            <<e.node>>))
                   : e \in {parse_expression(i, ParseExprBitflags_all)} })

\* Parser::parse_statements; the statement parsers of While, Import, From, With, Try,
\* For, Raise, Del and Assert are outside the modelled vocabulary
parse_statements(i) ==
    LET token == Get(i)
        Simple(kind) == Ret(Adv(Start(i), 1), Stmt(kind, "", token.span, <<>>))
        Compound == \/ IsKw(token, "Def") \/ IsKw(token, "If") \/ IsKw(token, "Class")
                    \/ IsKw(token, "Return")
    IN  IF ~IsSome(i) THEN Ret(Unwrap(Start(i)), InvalidStmt)
        ELSE IF Compound
        \* the statement of the parse function, its span started at the leading token
        THEN The({ Ret(Merge(Start(i), r),
                       [r.node EXCEPT
                           !.span = [@ EXCEPT !.row_start = token.span.row_start,
                                              !.column_start = token.span.column_start]])
                   : r \in {IF IsKw(token, "Def") THEN parse_function(i + 1)
                            ELSE IF IsKw(token, "If") THEN parse_if(i + 1)
                            ELSE IF IsKw(token, "Return") THEN parse_return(i + 1)
                            ELSE parse_class(i + 1)} })
        ELSE IF IsOp(token, "At") THEN Unreached
        ELSE IF token.kind = "Keyword" /\ token.val \in {"While", "Import", "From", "With", "Try", "For",
                                                        "Raise", "Del", "Assert"}
        THEN Unreached
        ELSE IF IsKw(token, "Pass") THEN Simple("Pass")
        ELSE IF IsKw(token, "Continue") THEN Simple("Continue")
        ELSE IF IsKw(token, "Break") THEN Simple("Break")
        ELSE IF IsOp(token, "ColonEqual")
        THEN Ret(Push([Start(i) EXCEPT !.index = skip_line(i + 1)], TRUE,
                      SyntaxErr("SyntaxError: invalid assignment statement!", token.span)),
                 Stmt("Invalid", "", token.span, <<>>))
        ELSE The({ Ret(Merge(Start(i), e), Stmt("Expression", "", e.node.span, <<e.node>>))
                   : e \in {parse_expression(i, ParseExprBitflags_all)} })

(***************************************************************************)
(* Parser::new and Parser::parse.                                          *)
(***************************************************************************)
\* Parser::new: the tokens are copied, what tokenize returned is not looked at
ParserNew ==
    /\ pc = "tokenized"
    /\ pc' = "parse"
    /\ index' = 0
    /\ stmts' = <<>>
    /\ parse_errors' = <<>>
    /\ created' = <<>>
    /\ UNCHANGED lexvars

\* one pass of the `while index < self.tokens.len()` of parse
ParseStatement ==
    /\ pc = "parse"
    /\ index < Len(tokens) /\ Get(index).kind # "Eof"
    /\ \E r \in {parse_statements(index)} :
           /\ created' = created \o r.made
           /\ IF r.panic
              THEN pc' = "panic" /\ UNCHANGED <<index, stmts, parse_errors>>
              ELSE /\ pc' = "parse"
                   /\ index' = r.index
                   /\ stmts' = Append(stmts, r.node)
                   /\ parse_errors' = parse_errors \o r.errs
    /\ UNCHANGED lexvars

\* the loop is left and parse returns (parsed_file, parse_errors)
ParseReturn ==
    /\ pc = "parse"
    /\ ~(index < Len(tokens) /\ Get(index).kind # "Eof")
    /\ pc' = "parsed"
    /\ UNCHANGED <<lexvars, parsevars>>

(***************************************************************************)
(* The source texts the model is run on.                                   *)
(***************************************************************************)
SeqsUpTo(S, n) == UNION {[1..k -> S] : k \in 0..n}

RECURSIVE Flatten(_)
Flatten(seqs) == IF Len(seqs) = 0 THEN <<>> ELSE Head(seqs) \o Flatten(Tail(seqs))

\* The texts tokenize is run on alone: every text of at most MaxLen characters over the
\* characters the scan loop tells apart, at most MaxLines lines, each indented by
\* 0, 1 or 2 columns, with and without the last line end, and one longer text.
LexSources ==
    LET
        CharSources ==
            SeqsUpTo({"r", "e", "j", "1", ".", "\"", "(", ")", ",", ":", "+", "!", " ", "\n", "\r", "\\", "#", "$"},
                     MaxLen)
        Lines ==
            {i \o c \o <<"\n">> : i \in {<<>>, <<" ">>, <<" ", " ">>},
                                  c \in {<<>>, <<"a">>, <<"(">>, <<")">>, <<"#">>}}
        whole == {Flatten(ls) : ls \in SeqsUpTo(Lines, MaxLines)}
        LineSources == whole \cup {SubSeq(t, 1, Len(t) - 1) : t \in whole \ {<<>>}}
        \* a string literal in brackets followed by a carriage return
        Bracketed == {<<"(", "\"", "\"", "\r">>}
    IN  CharSources \cup LineSources \cup Bracketed

\* The texts the parser is run on: at most MaxWords lexemes of the statements and
\* expressions the parser is modelled for, and programs of the forms the design
\* describes with every prefix of each.
ParseSources ==
    LET
        Words ==
            {
             <<"d", "e", "f", " ">>, <<"c", "l", "a", "s", "s", " ">>, <<"i", "f", " ">>, <<"x", " ">>,
              <<"1", " ">>, <<"(", " ">>, <<")", " ">>, <<"{", " ">>, <<"}", " ">>, <<":", " ">>,
              <<",", " ">>, <<"+", " ">>, <<"=", " ">>, <<"\n">>, <<"\n", " ", " ">>}
        WordSources == {Flatten(ws) : ws \in SeqsUpTo(Words, MaxWords)}
        Examples ==
            {
             <<":", "=", " ", "1", "\n", "x", "\n">>,
             <<"x", "\n", ":", "=", " ", "y", " ", "+", " ", "1", "\n", "y", " ", "=", " ", "1", "\n">>,
             <<"i", "f", " ", "x", ":", "\n", " ", " ", ":", "=", " ", "1", "\n", " ", " ", "y", "\n">>,
             <<"a", " ", "+", " ", "b", " ", "*", "*", " ", "c", "\n">>,
             <<"a", " ", "*", " ", "b", " ", "*", " ", "c", "\n">>,
             <<"a", " ", "*", " ", "b", " ", "*", "*", " ", "c", "\n">>,
             <<"a", " ", "*", "*", " ", "b", " ", "+", " ", "c", "\n">>,
             <<"a", " ", "*", "*", " ", "b", " ", "*", " ", "c", "\n">>,
             <<"a", " ", "+", " ", "b", " ", "+", " ", "c", "\n">>,
             <<"a", " ", "*", "*", " ", "b", " ", "*", "*", " ", "c", "\n">>,
             <<"a", " ", "*", " ", "b", " ", "+", " ", "c", "\n">>,
             <<"a", " ", "+", " ", "b", " ", "*", " ", "c", "\n">>,
             <<"d", "e", "f", " ", "f", "(", "x", ",", " ", "y", "=", "1", ")", ":", "\n", " ", " ", "p", "a", "s", "s", "\n">>,
             <<"d", "e", "f", " ", "f", "(", "x", ",", " ", "y", "=", "1", ")", ":", "\n", " ", " ", "r", "e", "t", "u", "r", "n", " ", "x", " ", "+", " ", "y", "\n">>,
             <<"i", "f", " ", "x", ":", " ", "p", "a", "s", "s", "\n", "y", "\n">>,
             <<"d", "e", "f", " ", "f", "(", ")", ":", " ", "p", "a", "s", "s", "\n">>,
             <<"c", "l", "a", "s", "s", " ", "A", "(", "B", ",", " ", "C", ")", ":", "\n", " ", " ", "x", " ", "=", " ", "1", "\n">>,
             <<"i", "f", " ", "x", ":", "\n", " ", " ", "y", "\n", "e", "l", "i", "f", " ", "z", ":", "\n", " ", " ", "w", "\n", "e", "l", "s", "e", ":", "\n", " ", " ", "v", "\n">>,
             <<"x", " ", "=", " ", "(", "1", ",", " ", "2", ",", " ", "3", ")", "\n">>,
             <<"a", "b", " ", "=", " ", "(", "2", ",", " ", "1", ")", "\n">>,
             <<"x", " ", "=", " ", "1", ",", "\n">>,
             <<"(", "1", " ", "+", "\n", "2", ")", "\n">>,
             <<"{", "1", ":", " ", "2", ",", " ", "3", ":", " ", "4", "}", "\n">>,
             <<"{", "1", ",", " ", "2", "}", ";", " ", "{", "}", "\n">>,
             <<"f", "(", "x", ",", " ", "1", ")", "\n">>,
             <<"x", ".", "y", "\n">>,
             <<"\"", "a", "\"", " ", "'", "b", "'", "\n">>,
             <<"x", " ", "\\", "\n", "+", " ", "1", " ", "#", " ", "c", "\n">>,
             <<"$", "\n", "\n">>,
             <<"x", " ", "i", "f", " ", "y", " ", "e", "l", "s", "e", " ", "z", "\n">>,
             <<"x", ":", " ", "1", " ", "=", " ", "2", "\n">>,
             <<"x", " ", "+", "=", " ", "1", "\n">>,
             <<".", "5", " ", ".", ".", ".", "\n">>,
             <<"\"", "a", "b", "c">>,
             <<"x", " ", ":", "=", " ", "1", "\n">>,
             <<":", "=", " ", "1", "\n">>}
        ExampleSources == UNION {{SubSeq(e, 1, n) : n \in 0..Len(e)} : e \in Examples}
    IN  WordSources \cup ExampleSources

(***************************************************************************)
(* The state machines.                                                     *)
(***************************************************************************)
\* Lexer::new, and Parser::parse not yet entered
InitOn(sources) ==
    /\ text \in sources
    /\ cs = StartPos
    /\ tokens = <<>>
    /\ indent_stack = <<0>>
    /\ implicit_line_joining = 0
    /\ errors = <<>>
    /\ is_beginning_of_line = TRUE
    /\ pc = "tokenize"
    /\ lex_errors = <<>>
    /\ index = 0
    /\ stmts = <<>>
    /\ parse_errors = <<>>
    /\ created = <<>>
    /\ relexed = <<>>
    /\ workspaces = <<>>
    /\ documents = <<>>
    /\ snapshots = <<>>

LexInit == InitOn(LexSources)

Init == InitOn(ParseSources)

\* Lexer::tokenize on its own
LexNext ==
    \/ BlankLine
    \/ LexIdentifierOrKeyword
    \/ LexNumber
    \/ LexString
    \/ LexOpen
    \/ LexClose
    \/ LexDot
    \/ LexPunctuation
    \/ LexColon
    \/ LexOperator
    \/ SkipWhitespace
    \/ LexNewLine
    \/ LexBackslash
    \/ LexComment
    \/ LexInvalidCharacter
    \/ TokenizeEnd

LexSpec == LexInit /\ [][LexNext]_vars

\* Lexer::new on the slice of the text spanned by one token of a finished tokenize:
\* the slice runs from (row_start, column_start) to (row_end, column_end), both
\* 1-based and inclusive, and stops at the end of the text.
Relex ==
    LET RowStart(row) ==
            IF row = 1 THEN 0
            ELSE CHOOSE k \in DOMAIN text :
                    /\ text[k] = "\n"
                    /\ Cardinality({j \in 1..k : text[j] = "\n"}) = row - 1
        Last_(to) == IF to > Len(text) THEN Len(text) ELSE to
        Slice(span) ==
            SubSeq(text, RowStart(span.row_start) + span.column_start,
                   Last_(RowStart(span.row_end) + span.column_end))
    IN  /\ pc = "tokenized" /\ relexed = <<>>
        /\ \E k \in DOMAIN tokens :
              /\ text' = Slice(tokens[k].span)
              /\ relexed' = << tokens[k] >>
        /\ cs' = StartPos
        /\ tokens' = <<>>
        /\ indent_stack' = <<0>>
        /\ implicit_line_joining' = 0
        /\ errors' = <<>>
        /\ is_beginning_of_line' = TRUE
        /\ pc' = "tokenize"
        /\ lex_errors' = <<>>
        /\ UNCHANGED <<parsevars, sessionvars>>

\* tokenize, then tokenize again on the slice of one of the tokens
RelexSpec == LexInit /\ [][LexNext \/ Relex]_vars

\* One of the two validity checks of lex_number is called on the whole text, as it is
\* on the slice of a number lexeme; `errors` receives the Err (<<>> for Ok).
CheckNumber ==
    /\ pc = "tokenize" /\ cs = StartPos
    /\ \E check \in {"decimal", "float"} : \E end \in {advance_by(StartPos, Len(text))} :
          /\ errors' = IF check = "decimal"
                       THEN check_if_decimal_is_valid_in_pos(StartPos, end)
                       ELSE check_if_float_number_is_valid_in_pos(StartPos, end,
                                "SyntaxError: invalid float literal")
          /\ pc' = IF check = "decimal" THEN "decimal_checked" ELSE "float_checked"
    /\ UNCHANGED <<text, cs, tokens, indent_stack, implicit_line_joining,
                   is_beginning_of_line, lex_errors, parsevars, relexed, sessionvars>>

\* the validity checks on their own, on every lexeme of at most MaxLen characters a
\* number can be made of and on the lexemes the comments of the checks list
CheckSpec ==
    /\ InitOn((SeqsUpTo({"1", "2", "_", ".", "e", "j", "+", "a"}, MaxLen) \ {<<>>})
              \cup {<<"1", "_", "2", "_", "3">>, <<"1", "_", "2", "3", "4", "4">>,
                    <<"1", "_", "2", "_">>, <<"1", "_", "_", "2", "_", "3">>,
                    <<"1", "2", "3", "4", "a", "b", "c">>, <<"+", "1">>, <<"-", "1">>,
                    <<".", "2">>, <<"1", ".", "3">>, <<"2", "4", ".">>,
                    <<"1", "_", "0", "0", "0", "e", "+", "4", "0">>,
                    <<"3", ".", "1", "4", "E", "-", "2">>, <<"1", "e", "5", "J">>,
                    <<"1", ".", "2", ".", "3">>, <<"1", "e", "5", "e", "5">>,
                    <<"1", ".", "5", "j", "1">>})
    /\ [][CheckNumber]_vars

\* Parser::new(text).parse()
Next ==
    \/ BlankLine
    \/ LexIdentifierOrKeyword
    \/ LexNumber
    \/ LexString
    \/ LexOpen
    \/ LexClose
    \/ LexDot
    \/ LexPunctuation
    \/ LexColon
    \/ LexOperator
    \/ SkipWhitespace
    \/ LexNewLine
    \/ LexBackslash
    \/ LexComment
    \/ LexInvalidCharacter
    \/ TokenizeEnd
    \/ ParserNew
    \/ ParseStatement
    \/ ParseReturn

Spec == Init /\ [][Next]_vars

(***************************************************************************)
(* The language-server session (crates/sith_server/src/session.rs).        *)
(* A path is the sequence of its components after the root, a component a  *)
(* number standing for its name in the order names compare; a Url is a     *)
(* scheme and a path; an Arc<Document> is a key of `documents`.            *)
(***************************************************************************)
MaxSnapshots == 2

\* the folder Urls a client registers: /1, /1/2 and one that is not a file
FolderUrls ==
    {[scheme |-> "file", path |-> p] : p \in {<<1>>, <<1, 2>>}}
        \cup {[scheme |-> "untitled", path |-> <<1>>]}

\* the document Urls a client opens: /0/9 lies before every folder, /1/3 under /1
\* only, /3/3 after every folder, and one that is not a file
DocumentUrls ==
    {[scheme |-> "file", path |-> p] : p \in {<<0, 9>>, <<1, 3>>, <<3, 3>>}}
        \cup {[scheme |-> "untitled", path |-> <<1, 3>>]}

\* what Document::new and an edit can make a document hold
Documents == {[contents |-> "p", version |-> 1], [contents |-> "q", version |-> 2]}

\* Ord for PathBuf: component by component, a proper prefix first
RECURSIVE PathLess(_, _)
PathLess(p, q) ==
    IF q = <<>> THEN FALSE
    ELSE IF p = <<>> THEN TRUE
    ELSE IF Head(p) # Head(q) THEN Head(p) < Head(q)
    ELSE PathLess(Tail(p), Tail(q))

\* Url::to_file_path: <<path>> for Ok(path), <<>> for Err
to_file_path(url) == IF url.scheme = "file" THEN <<url.path>> ELSE <<>>

\* Workspaces::entry_for_url and entry_for_url_mut: the last entry of the map whose
\* key is below the path of the Url; <<key>> for Some, <<>> for None
entry_for_url(ws, url) ==
    LET path == to_file_path(url)
        range == IF path = <<>> THEN {} ELSE {p \in DOMAIN ws : PathLess(p, path[1])}
    IN  IF range = {} THEN <<>>
        ELSE << CHOOSE p \in range : \A o \in range : o = p \/ PathLess(o, p) >>

\* Arc::strong_count: the controllers and the snapshots that hold the Arc
strong_count(ws, snaps, arc) ==
    Cardinality({pu \in UNION {{<<p, u>> : u \in DOMAIN ws[p]} : p \in DOMAIN ws} :
                    ws[pu[1]][pu[2]] = arc})
        + Cardinality({k \in DOMAIN snaps : snaps[k].document = arc})

\* Arc::new: an allocation no live Arc points to
Arc_new == << <<>>, <<0>> >>

\* The memory after an operation: a Document lives as long as a controller or a
\* snapshot holds its Arc. The address of an Arc is not observable, so an Arc is
\* named after its first holder: << <<>>, <<k>> >> for the k-th snapshot, else
\* <<folder, path>> for the controller.
Memory(docs, ws, snaps) ==
    LET name(arc) ==
            LET taken == {k \in DOMAIN snaps : snaps[k].document = arc}
            IN  IF taken # {}
                THEN {<< <<>>, <<k>> >> : k \in {j \in taken : \A i \in taken : j <= i}}
                ELSE UNION {{<<p, u.path>> : u \in {v \in DOMAIN ws[p] : ws[p][v] = arc}} :
                               p \in DOMAIN ws}
        names == [arc \in DOMAIN docs |-> name(arc)]
        The_(set) == CHOOSE x \in set : TRUE
    IN  [workspaces |-> [p \in DOMAIN ws |-> [u \in DOMAIN ws[p] |-> The_(names[ws[p][u]])]],
         documents |-> [n \in UNION {names[arc] : arc \in DOMAIN docs} |->
                           docs[CHOOSE arc \in DOMAIN docs : n \in names[arc]]],
         snapshots |-> [k \in DOMAIN snaps |->
                           [snaps[k] EXCEPT !.document = The_(names[snaps[k].document])]]]

\* DocumentController::make_mut in place: the Arc is written through whoever shares it
make_mut_shared(docs, ws, snaps, arc) == [document |-> arc, documents |-> docs]

\* DocumentController::make_mut, Arc::make_mut: the controller's own Arc when nobody
\* shares it, else a new Arc holding a clone of the Document
make_mut(docs, ws, snaps, arc) ==
    IF strong_count(ws, snaps, arc) = 1
    THEN [document |-> arc, documents |-> docs]
    ELSE LET new == Arc_new
         IN  [document |-> new,
              documents |-> [a \in DOMAIN docs \cup {new} |->
                                IF a = new THEN docs[arc] ELSE docs[a]]]

\* the workspaces with the controller of `url` in the workspace `key` holding `arc`
Insert(ws, key, url, arc) ==
    [ws EXCEPT ![key] = [u \in DOMAIN ws[key] \cup {url} |->
                            IF u = url THEN arc ELSE ws[key][u]]]

\* Session::new: one empty workspace for each folder, all of them file paths; no
\* text is lexed
SessionInit ==
    /\ \E folders \in SUBSET {url \in FolderUrls : to_file_path(url) # <<>>} :
          workspaces = [p \in {to_file_path(url)[1] : url \in folders} |-> [u \in {} |-> 0]]
    /\ documents = <<>>
    /\ snapshots = <<>>
    /\ text = <<>> /\ cs = StartPos /\ tokens = <<>> /\ indent_stack = <<0>>
    /\ implicit_line_joining = 0 /\ errors = <<>> /\ is_beginning_of_line = TRUE
    /\ pc = "session" /\ lex_errors = <<>> /\ index = 0 /\ stmts = <<>>
    /\ parse_errors = <<>> /\ created = <<>> /\ relexed = <<>>

\* Session::open_document, Workspaces::open, OpenDocuments::open: a new controller
\* replaces the one the workspace of the Url has; nothing without a workspace
OpenDocument ==
    \E url \in DocumentUrls : \E document \in Documents :
        LET entry == entry_for_url(workspaces, url)
            arc == Arc_new
            ws == Insert(workspaces, entry[1], url, arc)
            docs == [a \in DOMAIN documents \cup {arc} |->
                        IF a = arc THEN document ELSE documents[a]]
        IN  /\ pc = "session"
            /\ entry # <<>>
            /\ \E memory \in {Memory(docs, ws, snapshots)} :
                  /\ workspaces' = memory.workspaces
                  /\ documents' = memory.documents
                  /\ snapshots' = memory.snapshots
            /\ UNCHANGED <<pc, text, cs, tokens, indent_stack,
                           implicit_line_joining, errors, is_beginning_of_line,
                           lex_errors, relexed, parsevars>>

\* Session::close_document, Workspaces::close, OpenDocuments::close: the controller
\* leaves the workspace of the Url; an Err without a workspace or a controller
CloseDocument ==
    \E url \in DocumentUrls :
        LET entry == entry_for_url(workspaces, url)
            ws == [workspaces EXCEPT ![entry[1]] =
                      [u \in DOMAIN workspaces[entry[1]] \ {url} |-> workspaces[entry[1]][u]]]
        IN  /\ pc = "session"
            /\ entry # <<>>
            /\ url \in DOMAIN workspaces[entry[1]]
            /\ \E memory \in {Memory(documents, ws, snapshots)} :
                  /\ workspaces' = memory.workspaces
                  /\ documents' = memory.documents
                  /\ snapshots' = memory.snapshots
            /\ UNCHANGED <<pc, text, cs, tokens, indent_stack,
                           implicit_line_joining, errors, is_beginning_of_line,
                           lex_errors, relexed, parsevars>>

\* Session::take_snapshot, Workspaces::document_snapshot, OpenDocuments::snapshot,
\* DocumentController::make_ref: a clone of the Arc of the controller; `taken` is
\* a ghost, the Document the snapshot shows when it is made
TakeSnapshot ==
    \E url \in DocumentUrls :
        LET entry == entry_for_url(workspaces, url)
        IN  /\ pc = "session" /\ Len(snapshots) < MaxSnapshots
            /\ entry # <<>>
            /\ url \in DOMAIN workspaces[entry[1]]
            /\ \E memory \in {Memory(documents, workspaces,
                                      Append(snapshots,
                                          [url |-> url,
                                           document |-> workspaces[entry[1]][url],
                                           taken |-> documents[workspaces[entry[1]][url]]]))} :
                  /\ workspaces' = memory.workspaces
                  /\ documents' = memory.documents
                  /\ snapshots' = memory.snapshots
            /\ UNCHANGED <<pc, text, cs, tokens, indent_stack,
                           implicit_line_joining, errors, is_beginning_of_line,
                           lex_errors, relexed, parsevars>>

\* Session::document_controller, then a write through DocumentController::make_mut
EditDocument ==
    \E url \in DocumentUrls : \E document \in Documents :
        LET entry == entry_for_url(workspaces, url)
            mut == make_mut(documents, workspaces, snapshots, workspaces[entry[1]][url])
        IN  /\ pc = "session"
            /\ entry # <<>>
            /\ url \in DOMAIN workspaces[entry[1]]
            /\ \E memory \in {Memory([mut.documents EXCEPT ![mut.document] = document],
                                      Insert(workspaces, entry[1], url, mut.document),
                                      snapshots)} :
                  /\ workspaces' = memory.workspaces
                  /\ documents' = memory.documents
                  /\ snapshots' = memory.snapshots
            /\ UNCHANGED <<pc, text, cs, tokens, indent_stack,
                           implicit_line_joining, errors, is_beginning_of_line,
                           lex_errors, relexed, parsevars>>

\* Session::open_workspace_folder, Workspaces::open_workspace_folder, Workspace::new:
\* a workspace with no open document is inserted at the path of the Url, in place of
\* the one that was there; an Err when the Url is not a file path
OpenWorkspaceFolder ==
    \E url \in FolderUrls :
        LET path == to_file_path(url)
            ws == [p \in DOMAIN workspaces \cup {path[1]} |->
                      IF p = path[1] THEN [u \in {} |-> 0] ELSE workspaces[p]]
        IN  /\ pc = "session"
            /\ path # <<>>
            /\ \E memory \in {Memory(documents, ws, snapshots)} :
                  /\ workspaces' = memory.workspaces
                  /\ documents' = memory.documents
                  /\ snapshots' = memory.snapshots
            /\ UNCHANGED <<pc, text, cs, tokens, indent_stack,
                           implicit_line_joining, errors, is_beginning_of_line,
                           lex_errors, relexed, parsevars>>

\* Session::close_workspace_folder, Workspaces::close_workspace_folder: the
\* workspace at the path is removed with its controllers; an Err when there is none
CloseWorkspaceFolder ==
    \E url \in FolderUrls :
        LET path == to_file_path(url)
            ws == [p \in DOMAIN workspaces \ {path[1]} |-> workspaces[p]]
        IN  /\ pc = "session"
            /\ path # <<>>
            /\ path[1] \in DOMAIN workspaces
            /\ \E memory \in {Memory(documents, ws, snapshots)} :
                  /\ workspaces' = memory.workspaces
                  /\ documents' = memory.documents
                  /\ snapshots' = memory.snapshots
            /\ UNCHANGED <<pc, text, cs, tokens, indent_stack,
                           implicit_line_joining, errors, is_beginning_of_line,
                           lex_errors, relexed, parsevars>>

\* the operations of a Session, in any order
SessionNext ==
    \/ OpenDocument
    \/ CloseDocument
    \/ TakeSnapshot
    \/ EditDocument
    \/ OpenWorkspaceFolder
    \/ CloseWorkspaceFolder

SessionSpec == SessionInit /\ [][SessionNext]_vars

(***************************************************************************)
(* Properties of the front end.                                            *)
(***************************************************************************)
\* the span invariant: rows in order, and columns in order on a single row
WellFormed(span) ==
    /\ span.row_start <= span.row_end
    /\ span.row_start = span.row_end => span.column_start <= span.column_end

\* how many tokens of toks have the kind
CountKind(toks, kind) == Cardinality({k \in DOMAIN toks : toks[k].kind = kind})

\* every diagnostic of the list `some` is an element of the list `all`
ContainedIn(some, all) == \A k \in DOMAIN some : \E j \in DOMAIN all : all[j] = some[k]

\* C1: Parser::new(text).parse() returns for every source text: no token lookup is
\* out of range and no unwrap fails, also when the text ends inside a construct.
C1_ParseNeverPanics == pc # "panic"

\* C2: Lexer::tokenize terminates on every input: no loop of the scanner or of a
\* sub-lexer stops consuming characters without exiting.
C2_TokenizeTerminates == pc # "hang"

\* C3: every diagnostic tokenize produced for the source is in the list that parse
\* returns for that source.
C3_LexerDiagnosticsReturned == pc = "parsed" => ContainedIn(lex_errors, parse_errors)

\* C4: every diagnostic a parse function constructed is in the list that parse
\* returns: no callee's error list and no pushed error is discarded on the way up.
C4_ParserDiagnosticsReturned == pc = "parsed" => ContainedIn(created, parse_errors)

\* C5: the token sequence tokenize returns holds exactly one Eof token, it is the last
\* element, and the Dedents of the end-of-input unwinding (one per indentation level
\* still open) come right before it.
C5_ExactlyOneEofLast ==
    [][pc = "tokenize" /\ pc' = "tokenized" =>
        /\ CountKind(tokens', "Eof") = 1
        /\ tokens'[Len(tokens')].kind = "Eof"
        /\ Len(tokens') = Len(tokens) + (Len(indent_stack) - 1) + 1
        /\ \A k \in (Len(tokens) + 1)..(Len(tokens') - 1) : tokens'[k].kind = "Dedent"]_vars

\* C5 witness: tokenize has returned after unwinding two indentation levels
C5_Witness ==
    /\ pc = "tokenized"
    /\ Len(tokens) >= 3
    /\ tokens[Len(tokens) - 1].kind = "Dedent"
    /\ tokens[Len(tokens) - 2].kind = "Dedent"

\* C6: in the token sequence tokenize returns, the Indent tokens are as many as the
\* Dedent tokens, and the indentation stack has ended as [0]; while scanning, the
\* levels above 0 on the stack are the Indents not yet matched by a Dedent.
C6_IndentsMatchDedents ==
    /\ pc = "tokenize" =>
          CountKind(tokens, "Indent") = CountKind(tokens, "Dedent") + (Len(indent_stack) - 1)
    /\ pc = "tokenized" =>
          /\ CountKind(tokens, "Indent") = CountKind(tokens, "Dedent")
          /\ indent_stack = <<0>>

\* C6 witness: tokenize has returned two Indents, one Dedent emitted while scanning
\* and one by the unwinding at the end of the input
C6_Witness ==
    /\ pc = "tokenized"
    /\ CountKind(tokens, "Indent") = 2
    /\ \E k \in DOMAIN tokens : tokens[k].kind = "Dedent" /\ k < Len(tokens) - 1
    /\ tokens[Len(tokens) - 1].kind = "Dedent"

\* every Expression and Statement node of the tree n has a well-formed span
RECURSIVE SpansWellFormed(_)
SpansWellFormed(n) ==
    /\ n.sort \in {"Expression", "Statement"} => WellFormed(n.span)
    /\ \A k \in DOMAIN n.kids : SpansWellFormed(n.kids[k])

\* C7: every Expression and Statement node of the tree parse returns has a span with
\* row_start <= row_end and, on a single row, column_start <= column_end.
C7_NodeSpansWellFormed == \A k \in DOMAIN stmts : SpansWellFormed(stmts[k])

\* C8: every token tokenize has emitted and every diagnostic it has produced has a
\* well-formed span whose column_start is at least 1.
C8_LexerSpansWellFormed ==
    /\ \A k \in DOMAIN tokens : WellFormed(tokens[k].span) /\ tokens[k].span.column_start >= 1
    /\ \A k \in DOMAIN errors : WellFormed(errors[k].span) /\ errors[k].span.column_start >= 1
    /\ \A k \in DOMAIN lex_errors :
          WellFormed(lex_errors[k].span) /\ lex_errors[k].span.column_start >= 1

\* C8 witness: tokenize has returned Indent, NewLine, Dedent and Eof tokens and a
\* diagnostic
C8_Witness ==
    /\ pc = "tokenized"
    /\ \A kind \in {"Indent", "NewLine", "Dedent", "Eof"} : CountKind(tokens, kind) >= 1
    /\ lex_errors # <<>>

\* the text is one string literal without its closing quotes: an optional prefix, one
\* or three opening quotes, and a body with no quote, line end or backslash
IsUnterminatedString(t) ==
    \E p \in {<<>>, <<"r">>} : \E n \in {1, 3} :
        /\ Len(t) >= Len(p) + n
        /\ SubSeq(t, 1, Len(p)) = p
        /\ \A k \in (Len(p) + 1)..(Len(p) + n) : t[k] = "\""
        /\ \A k \in (Len(p) + n + 1)..Len(t) : t[k] \notin {"\"", "\n", "\\"}

\* C9: for a text that is one unterminated string literal, tokenize returns, with
\* exactly one Syntax diagnostic, whose span is that of the one String token emitted.
C9_UnterminatedStringReported ==
    IsUnterminatedString(text) =>
        /\ pc # "hang"
        /\ pc = "tokenized" =>
              /\ CountKind(tokens, "String") = 1
              /\ Len(lex_errors) = 1
              /\ lex_errors[1].error = "Syntax"
              /\ lex_errors[1].span = tokens[1].span

\* the text is one number lexeme: it starts with a digit or with '.' and a digit,
\* goes on with digits, '.' and 'e', and may end in the imaginary suffix
IsNumberLexeme(t) ==
    /\ Len(t) >= 1
    /\ \/ is_ascii_digit(t[1])
       \/ Len(t) >= 2 /\ t[1] = "." /\ is_ascii_digit(t[2])
    /\ \A k \in 1..(Len(t) - 1) : is_ascii_digit(t[k]) \/ t[k] \in {".", "e"}
    /\ \/ is_ascii_digit(t[Len(t)]) \/ t[Len(t)] \in {".", "e"}
       \/ t[Len(t)] = "j" /\ \E k \in 1..(Len(t) - 1) : t[k] \in {".", "e"}

\* the validity rule of the lexeme's kind: the float / imaginary rule when it has a
\* '.', an exponent or a suffix, the decimal rule otherwise
ShapeIsValid(t) ==
    IF \E k \in DOMAIN t : t[k] \in {".", "e", "j"} THEN float_is_valid(t)
    ELSE decimal_is_valid(t)

\* C10: for a text that is one number lexeme of invalid shape, tokenize returns at
\* least one Syntax diagnostic and exactly one Number token, covering the lexeme.
C10_InvalidNumberReported ==
    pc = "tokenized" /\ IsNumberLexeme(text) /\ ~ShapeIsValid(text) =>
        /\ CountKind(tokens, "Number") = 1
        /\ tokens[1].kind = "Number" /\ tokens[1].lexeme = text
        /\ \E k \in DOMAIN lex_errors : lex_errors[k].error = "Syntax"

\* the text is one well-formed number lexeme: a radix prefix and digits of the radix,
\* or a run of decimal digits, an optional '.' and fraction digits, an optional
\* exponent with an optional sign, and an optional imaginary suffix
IsRadixLexeme(t, letters, digits) ==
    /\ Len(t) >= 3 /\ t[1] = "0" /\ t[2] \in letters
    /\ \A k \in 3..Len(t) : t[k] \in digits

DigitRun(t, from, to) == from <= to /\ \A k \in from..to : is_ascii_digit(t[k])

IsMantissa(m) ==
    \E d \in 1..Len(m) :
        /\ DigitRun(m, 1, d)
        /\ d = Len(m) \/ (m[d + 1] = "." /\ DigitRun(m, d + 2, Len(m)))

IsExponent(x) ==
    /\ Len(x) >= 2 /\ x[1] \in {"e", "E"}
    /\ DigitRun(x, 2, Len(x)) \/ (x[2] \in {"+", "-"} /\ DigitRun(x, 3, Len(x)))

HasImaginarySuffix(t) == Len(t) >= 2 /\ t[Len(t)] \in {"j", "J"}

IsDecimalShapedNumber(t) ==
    LET body == IF HasImaginarySuffix(t) THEN SubSeq(t, 1, Len(t) - 1) ELSE t
    IN  \E n \in 1..Len(body) :
            /\ IsMantissa(SubSeq(body, 1, n))
            /\ n = Len(body) \/ IsExponent(SubSeq(body, n + 1, Len(body)))

IsBinaryLexeme(t) == IsRadixLexeme(t, {"b", "B"}, {"0", "1"})

IsOctalLexeme(t) == IsRadixLexeme(t, {"o", "O"}, {"0", "1", "2", "3", "4", "5", "6", "7"})

IsHexLexeme(t) == Len(t) >= 3 /\ t[1] = "0" /\ t[2] \in {"x", "X"}
                  /\ \A k \in 3..Len(t) : is_ascii_hexdigit(t[k])

IsWellFormedNumber(t) ==
    IsBinaryLexeme(t) \/ IsOctalLexeme(t) \/ IsHexLexeme(t) \/ IsDecimalShapedNumber(t)

\* the sub-kind the design gives to a well-formed number lexeme
SubKindOf(t) ==
    IF IsBinaryLexeme(t) THEN "Binary"
    ELSE IF IsOctalLexeme(t) THEN "Octal"
    ELSE IF IsHexLexeme(t) THEN "Hex"
    ELSE IF HasImaginarySuffix(t) THEN "Imaginary"
    ELSE IF \E k \in DOMAIN t : t[k] \in {".", "e", "E"} THEN "Float"
    ELSE "Decimal"

\* C11: for a text that is one well-formed number lexeme, tokenize returns one Number
\* token covering the lexeme, followed by Eof, tagged Binary, Octal or Hex after a
\* radix prefix, Imaginary with a j suffix, Float with a fraction or an exponent and
\* Decimal otherwise.
C11_NumberSubKind ==
    pc = "tokenized" /\ IsWellFormedNumber(text) =>
        /\ Len(tokens) = 2
        /\ tokens[1].kind = "Number" /\ tokens[1].lexeme = text
        /\ tokens[1].val = SubKindOf(text)

LeadingWidth == skip_whitespace(cs).index - cs.index

\* the loop body is about to handle the indentation of a line whose width is below the
\* top of the stack and equal to no entry of it
AtMismatchedDedent ==
    /\ is_beginning_of_line /\ implicit_line_joining = 0
    /\ Dispatching(LineStart)
    /\ LeadingWidth < Last(indent_stack)
    /\ \A k \in DOMAIN indent_stack : indent_stack[k] # LeadingWidth

\* C13: a pass of the loop over a dedenting line whose width is no entry of the stack
\* pops the entries above the width and keeps the others without pushing the width,
\* pushes one Dedent per popped entry and no other Dedent or Indent, records exactly
\* one more diagnostic of kind Indentation, and goes on to the first token of the line.
C13_MismatchedDedent ==
    [][AtMismatchedDedent =>
        LET kept == Cardinality({k \in DOMAIN indent_stack : indent_stack[k] <= LeadingWidth})
            popped == Len(indent_stack) - kept
        IN  /\ indent_stack' = SubSeq(indent_stack, 1, kept)
            /\ Last(indent_stack') < LeadingWidth
            /\ Len(tokens') >= Len(tokens) + popped
            /\ SubSeq(tokens', 1, Len(tokens)) = tokens
            /\ \A k \in (Len(tokens) + 1)..Len(tokens') :
                  k <= Len(tokens) + popped <=> tokens'[k].kind = "Dedent"
            /\ \A k \in (Len(tokens) + 1)..Len(tokens') : tokens'[k].kind # "Indent"
            /\ SubSeq(errors', 1, Len(errors)) = errors
            /\ Cardinality({k \in (Len(errors) + 1)..Len(errors') :
                               errors'[k].error = "Indentation"}) = 1
            /\ pc' # "tokenized"
            /\ cs'.index > cs.index + LeadingWidth]_vars

\* C13 witness: tokenize has returned one Indentation diagnostic, and a Dedent is
\* followed by the identifier of the mismatched line
C13_Witness ==
    /\ pc = "tokenized"
    /\ Len(lex_errors) = 1 /\ lex_errors[1].error = "Indentation"
    /\ \E k \in 1..(Len(tokens) - 1) : tokens[k].kind = "Dedent" /\ tokens[k + 1].kind = "Id"

\* the text of the assignment of the parenthesized tuple of the literals elems to id
RECURSIVE CommaSeparated(_)
CommaSeparated(elems) ==
    IF Len(elems) = 1 THEN << elems[1] >>
    ELSE << elems[1], ",", " " >> \o CommaSeparated(Tail(elems))

TupleAssignment(id, elems) ==
    id \o <<" ", "=", " ", "(">> \o CommaSeparated(elems) \o <<")">>

\* C14: for a text that is one assignment of a parenthesized tuple of n >= 2 number
\* literals to an identifier, with or without a line end, parse returns no diagnostic
\* and one statement, which holds an Assign of an Id and a Tuple of the n literals in
\* source order.
C14_TupleAssignment ==
    pc = "parsed" =>
        \A id \in {<<"x">>, <<"a", "b">>} : \A n \in 2..3 : \A elems \in [1..n -> {"1", "2", "3"}] :
            text \in {TupleAssignment(id, elems), TupleAssignment(id, elems) \o <<"\n">>} =>
                /\ parse_errors = <<>>
                /\ Len(stmts) = 1
                /\ stmts[1].sort = "Statement" /\ stmts[1].kind = "Expression"
                /\ Len(stmts[1].kids) = 1
                /\ LET assign == stmts[1].kids[1]
                   IN  /\ assign.kind = "Assign" /\ Len(assign.kids) = 2
                       /\ assign.kids[1].kind = "Id" /\ assign.kids[1].val = id
                       /\ assign.kids[2].kind = "Tuple" /\ Len(assign.kids[2].kids) = n
                       /\ \A k \in 1..n :
                             /\ assign.kids[2].kids[k].kind = "Number"
                             /\ assign.kids[2].kids[k].val = << elems[k] >>

\* C14 witness: parse has returned for `x = (1, 2, 3)`
C14_Witness ==
    /\ pc = "parsed"
    /\ text = TupleAssignment(<<"x">>, <<"1", "2", "3">>)
    /\ Len(stmts) = 1

\* the function definition of the design's example: `def f(x, y=1):`, a line end, and
\* `return x + y` indented by two columns
FunctionExample ==
    <<"d", "e", "f", " ", "f", "(", "x", ",", " ", "y", "=", "1", ")", ":", "\n",
      " ", " ", "r", "e", "t", "u", "r", "n", " ", "x", " ", "+", " ", "y">>

\* C15: for the example function definition, with or without a final line end, parse
\* returns no diagnostic and one statement: a FunctionDef named f whose parameters are
\* x without a default and y with the default 1, in this order, and whose block is one
\* Return of the binary Add of x and y.
C15_FunctionDefinition ==
    pc = "parsed" /\ text \in {FunctionExample, FunctionExample \o <<"\n">>} =>
        /\ parse_errors = <<>>
        /\ Len(stmts) = 1
        /\ stmts[1].sort = "Statement" /\ stmts[1].kind = "FunctionDef"
        /\ stmts[1].val = <<"f">>
        /\ Len(stmts[1].kids) = 3
        /\ LET x == stmts[1].kids[1]
               y == stmts[1].kids[2]
               block == stmts[1].kids[3]
           IN  /\ x.kind = "FuncParameter" /\ x.val = <<"x">> /\ x.kids = <<>>
               /\ y.kind = "FuncParameter" /\ y.val = <<"y">>
               /\ Len(y.kids) = 1 /\ y.kids[1].kind = "Number" /\ y.kids[1].val = <<"1">>
               /\ block.kind = "Block" /\ Len(block.kids) = 1
               /\ block.kids[1].sort = "Statement" /\ block.kids[1].kind = "Return"
               /\ Len(block.kids[1].kids) = 1
               /\ LET value == block.kids[1].kids[1]
                  IN  /\ value.kind = "BinaryOp" /\ value.val = "Add"
                      /\ Len(value.kids) = 2
                      /\ value.kids[1].kind = "Id" /\ value.kids[1].val = <<"x">>
                      /\ value.kids[2].kind = "Id" /\ value.kids[2].val = <<"y">>

\* C15 witness: parse has returned for the example function definition
C15_Witness ==
    pc = "parsed" /\ text = FunctionExample \o <<"\n">> /\ Len(stmts) = 1

\* C16: the bracket-nesting counter is never negative.
C16_NestingCounterNotNegative == implicit_line_joining >= 0

\* texts whose header is followed on the same line by the statement `pass`
OneLineBlocks ==
    {<<"i", "f", " ", "x", ":", " ", "p", "a", "s", "s", "\n">>,
     <<"d", "e", "f", " ", "f", "(", ")", ":", " ", "p", "a", "s", "s", "\n">>}

\* C17: for a header followed on its line by `pass`, parse returns, with an Indentation
\* diagnostic, and the block of the one statement is exactly the statement Pass.
C17_OneLineBlockParsed ==
    text \in OneLineBlocks =>
        /\ pc # "panic"
        /\ pc = "parsed" =>
              /\ \E k \in DOMAIN parse_errors : parse_errors[k].error = "Indentation"
              /\ Len(stmts) = 1
              /\ \E k \in DOMAIN stmts[1].kids :
                    /\ stmts[1].kids[k].kind = "Block"
                    /\ Len(stmts[1].kids[k].kids) = 1
                    /\ stmts[1].kids[k].kids[1].kind = "Pass"

\* a lexeme check_if_decimal_is_valid_in_pos can be given: a digit followed by digits,
\* letters and '_' (lex_number), or a sign and digits (handle_float_or_imaginary_number)
DecimalCheckInput(t) ==
    \/ /\ is_ascii_digit(t[1])
       /\ \A k \in DOMAIN t : valid_id_noninitial_chars(t[k])
    \/ /\ t[1] \in {"+", "-"}
       /\ \A k \in 2..Len(t) : is_ascii_digit(t[k])

\* an optional single leading sign, then one or more digits in which every '_' stands
\* alone between two digits
DecimalShape(t) ==
    LET b == IF t[1] \in {"+", "-"} THEN Tail(t) ELSE t
    IN  /\ Len(b) >= 1
        /\ \A k \in DOMAIN b :
              \/ is_ascii_digit(b[k])
              \/ /\ b[k] = "_" /\ 1 < k /\ k < Len(b)
                 /\ is_ascii_digit(b[k - 1]) /\ is_ascii_digit(b[k + 1])

\* C18: on a lexeme it can be given, check_if_decimal_is_valid_in_pos returns Ok exactly
\* when the lexeme is an optional sign and digits with single '_' between digits, and
\* one Syntax error otherwise.
C18_DecimalValidity ==
    pc = "decimal_checked" /\ DecimalCheckInput(text) =>
        /\ errors = <<>> <=> DecimalShape(text)
        /\ errors # <<>> => Len(errors) = 1 /\ errors[1].error = "Syntax"

\* a lexeme check_if_float_number_is_valid_in_pos can be given: the characters the
\* scan of handle_float_or_imaginary_number keeps in the lexeme
FloatCheckInput(t) ==
    \A k \in DOMAIN t :
        is_ascii_digit(t[k]) \/ t[k] \in {".", "e", "E", "_", "+", "-", "j", "J"}

IsExponentMark(c) == c \in {"e", "E"}

IsSuffix(c) == c \in {"j", "J"}

CountOf(t, chars) == Cardinality({k \in DOMAIN t : t[k] \in chars})

\* an exponent marker that is not followed by a digit, directly or after one sign
ExponentWithoutDigit(t) ==
    \E k \in DOMAIN t :
        /\ IsExponentMark(t[k])
        /\ ~ \/ k + 1 <= Len(t) /\ is_ascii_digit(t[k + 1])
             \/ k + 2 <= Len(t) /\ t[k + 1] \in {"+", "-"} /\ is_ascii_digit(t[k + 2])

\* the transitions of the design: digits (and '_' separators), at most one
\* '.', at most one exponent marker, after a digit or the fraction and followed by an
\* optional sign and a digit, and the suffix as the last character, after a digit
FloatTransitions(t) ==
    /\ FloatCheckInput(t)
    /\ CountOf(t, {"."}) <= 1 /\ CountOf(t, {"e", "E"}) <= 1
    /\ ~ExponentWithoutDigit(t)
    /\ \A k \in DOMAIN t :
          /\ t[k] = "." => \A j \in 1..(k - 1) : ~IsExponentMark(t[j])
          /\ IsExponentMark(t[k]) => k > 1 /\ (is_ascii_digit(t[k - 1]) \/ t[k - 1] = ".")
          /\ t[k] \in {"+", "-"} => k > 1 /\ IsExponentMark(t[k - 1])
          /\ IsSuffix(t[k]) => k = Len(t) /\ k > 1 /\ is_ascii_digit(t[k - 1])

\* the shapes the comment of the check lists as valid
ListedValidFloats ==
    {<<".", "2">>, <<"1", ".", "3">>, <<"2", "4", ".">>,
     <<"1", "_", "0", "0", "0", "e", "+", "4", "0">>,
     <<"3", ".", "1", "4", "E", "-", "2">>, <<"1", "e", "5", "J">>}

\* C19: on a lexeme it can be given, check_if_float_number_is_valid_in_pos returns Ok
\* only if the lexeme follows the transitions of the design, returns Ok for every shape
\* its comment lists as valid, and returns an error for a second '.', a second exponent
\* marker, an exponent marker without a digit after it and any character after the
\* suffix.
C19_FloatValidity ==
    pc = "float_checked" /\ FloatCheckInput(text) =>
        /\ errors = <<>> => FloatTransitions(text)
        /\ text \in ListedValidFloats => errors = <<>>
        /\ \/ CountOf(text, {"."}) >= 2
           \/ CountOf(text, {"e", "E"}) >= 2
           \/ ExponentWithoutDigit(text)
           \/ \E k \in 1..(Len(text) - 1) : IsSuffix(text[k])
           => errors # <<>>

\* the stack of indentation widths is non-empty, starts with 0 and increases strictly
IndentStackWellFormed ==
    /\ Len(indent_stack) > 0
    /\ indent_stack[1] = 0
    /\ \A k \in 1..(Len(indent_stack) - 1) : indent_stack[k] < indent_stack[k + 1]

\* the pass of the loop that starts here calls handle_indentation(LeadingWidth)
HandlesIndentation ==
    is_beginning_of_line /\ implicit_line_joining = 0 /\ Dispatching(LineStart)

\* C20: in every reachable state of the lexer the indentation stack is non-empty, its
\* bottom entry is 0 and its entries increase strictly from bottom to top; and after a
\* pass of the loop that calls handle_indentation(w) the top of the stack is at most w,
\* and is w unless the call has returned a diagnostic of kind Indentation.
C20_IndentStack ==
    /\ []IndentStackWellFormed
    /\ [][HandlesIndentation =>
            /\ Last(indent_stack') <= LeadingWidth
            /\ \/ Last(indent_stack') = LeadingWidth
               \/ \E k \in (Len(errors) + 1)..Len(errors') : errors'[k].error = "Indentation"]_vars

\* C20 witness: the scan is past a line that was indented (an Indent was pushed) and a
\* line whose width closed that level without matching an entry: the stack is back to
\* its bottom entry and an Indentation diagnostic is recorded
C20_Witness ==
    /\ pc = "tokenize"
    /\ indent_stack = <<0>>
    /\ \E j, k \in DOMAIN tokens : j < k /\ tokens[j].kind = "Indent" /\ tokens[k].kind = "Dedent"
    /\ \E k \in DOMAIN errors : errors[k].error = "Indentation"

\* the tokens a pass of the scan loop has pushed
PushedTokens == SubSeq(tokens', Len(tokens) + 1, Len(tokens'))

LayoutKinds == {"NewLine", "Indent", "Dedent"}

\* a pass of the scan loop (the step does not leave the loop)
LoopPass == pc = "tokenize" /\ pc' # "tokenized"

\* C21: a pass of the scan loop that starts with the bracket-nesting counter above 0
\* pushes no NewLine, Indent or Dedent token, consumes every character it passes, line
\* terminators included, and leaves the indentation stack unchanged.
C21_NoLayoutInsideBrackets ==
    [][LoopPass /\ implicit_line_joining > 0 =>
        /\ SubSeq(tokens', 1, Len(tokens)) = tokens
        /\ \A k \in DOMAIN PushedTokens : PushedTokens[k].kind \notin LayoutKinds
        /\ indent_stack' = indent_stack
        /\ cs'.index >= cs.index]_vars

\* C21 witness: tokenize has returned, a line terminator lies between an opening
\* bracket and the token after it, the following line is indented and no layout token
\* was pushed between the two
C21_Witness ==
    /\ pc = "tokenized"
    /\ \E k \in 1..(Len(tokens) - 1) :
          /\ tokens[k].kind = "OpenParenthesis"
          /\ tokens[k + 1].kind \notin LayoutKinds \cup {"Eof"}
          /\ tokens[k + 1].span.row_start > tokens[k].span.row_start
          /\ tokens[k + 1].span.column_start > 1

\* the index of the first line terminator at or after index i (Len(text) if none)
RECURSIVE LineEnd(_)
LineEnd(i) ==
    IF i >= Len(text) \/ text[i + 1] \in {"\n", "\r"} THEN i ELSE LineEnd(i + 1)

\* the physical line that starts at index i holds only whitespace, or whitespace and a
\* comment, and ends with a line terminator
BlankLineAt(i) ==
    /\ LineEnd(i) < Len(text)
    /\ \E n \in i..LineEnd(i) :
          /\ \A k \in (i + 1)..n : IsWhitespace(text[k])
          /\ n = LineEnd(i) \/ text[n + 1] = "#"

\* the index after the terminator of the line that starts at index i
NextLineStart(i) ==
    IF text[LineEnd(i) + 1] = "\r" /\ LineEnd(i) + 1 < Len(text) /\ text[LineEnd(i) + 2] = "\n"
    THEN LineEnd(i) + 2 ELSE LineEnd(i) + 1

\* C22: with the bracket-nesting counter at 0, the pass of the scan loop that starts a
\* logical line on a line of only whitespace, or of whitespace and a comment, pushes no
\* token and no diagnostic, leaves the indentation stack and the counter as they are,
\* and stops at the start of the next line, which is again the start of a logical line:
\* the lexer is in the state it would be in if the line were absent.
C22_BlankLineSkipped ==
    [][pc = "tokenize" /\ is_beginning_of_line /\ implicit_line_joining = 0
       /\ BlankLineAt(cs.index) =>
            /\ tokens' = tokens
            /\ errors' = errors
            /\ indent_stack' = indent_stack
            /\ implicit_line_joining' = 0
            /\ is_beginning_of_line'
            /\ pc' = "tokenize"
            /\ cs'.index = NextLineStart(cs.index)]_vars

\* the operators of the examples: the lexeme and the binary operation of each
ExampleOperators ==
    {[lexeme |-> <<"+">>, op |-> "Add"], [lexeme |-> <<"*">>, op |-> "Multiply"],
     [lexeme |-> <<"*", "*">>, op |-> "Exponent"]}

\* the text `a o1 b o2 c` and a line end
TwoOperators(o1, o2) ==
    <<"a", " ">> \o o1.lexeme \o <<" ", "b", " ">> \o o2.lexeme \o <<" ", "c", "\n">>

IsId(e, name) == e.kind = "Id" /\ e.val = name

IsBinaryOp(e, op) == e.kind = "BinaryOp" /\ e.val = op /\ Len(e.kids) = 2

\* every BinaryOp below and at e follows the binding powers: an operation that is the
\* left operand of o was closed because o binds less on its left than the operation
\* does on its right, and one that is the right operand of o was taken by the call
\* whose threshold is the right power of o
RECURSIVE FollowsBindingPowers(_)
FollowsBindingPowers(e) ==
    /\ \A k \in DOMAIN e.kids : FollowsBindingPowers(e.kids[k])
    /\ e.kind = "BinaryOp" /\ Len(e.kids) = 2 =>
          /\ e.kids[1].kind = "BinaryOp" =>
                infix_binding_power(e.val)[1] < infix_binding_power(e.kids[1].val)[2]
          /\ e.kids[2].kind = "BinaryOp" =>
                infix_binding_power(e.kids[2].val)[1] >= infix_binding_power(e.val)[2]

\* C23: parse of `a o1 b o2 c` returns no diagnostic and one expression statement;
\* its expression is BinaryOp(BinaryOp(a, o1, b), o2, c) when the left power of o2 is
\* below the right power of o1, which is so for o1 = o2 with right power = left + 1
\* and for o2 of lower precedence than o1, and BinaryOp(a, o1, BinaryOp(b, o2, c))
\* otherwise, which is so for o1 = o2 with right power <= left power.  In every tree
\* parse builds from a text without brackets, each BinaryOp follows the binding powers.
C23_PrattPrecedence ==
    pc = "parsed" =>
        /\ \A o1, o2 \in ExampleOperators :
              text = TwoOperators(o1, o2) =>
                  /\ parse_errors = <<>> /\ Len(stmts) = 1
                  /\ stmts[1].kind = "Expression" /\ Len(stmts[1].kids) = 1
                  /\ LET root == stmts[1].kids[1]
                     IN  IF infix_binding_power(o2.op)[1] < infix_binding_power(o1.op)[2]
                         THEN /\ IsBinaryOp(root, o2.op)
                              /\ IsBinaryOp(root.kids[1], o1.op)
                              /\ IsId(root.kids[1].kids[1], <<"a">>)
                              /\ IsId(root.kids[1].kids[2], <<"b">>)
                              /\ IsId(root.kids[2], <<"c">>)
                         ELSE /\ IsBinaryOp(root, o1.op)
                              /\ IsId(root.kids[1], <<"a">>)
                              /\ IsBinaryOp(root.kids[2], o2.op)
                              /\ IsId(root.kids[2].kids[1], <<"b">>)
                              /\ IsId(root.kids[2].kids[2], <<"c">>)
        /\ (\A k \in DOMAIN tokens : tokens[k].kind \notin
                {"OpenParenthesis", "OpenBrackets", "OpenBrace"}) =>
              \A k \in DOMAIN stmts : FollowsBindingPowers(stmts[k])

\* C23 witness: parse has returned for `a ** b ** c` (right power below left power)
\* with an Exponent whose right operand is an Exponent
C23_Witness ==
    /\ pc = "parsed"
    /\ text = TwoOperators([lexeme |-> <<"*", "*">>, op |-> "Exponent"],
                           [lexeme |-> <<"*", "*">>, op |-> "Exponent"])
    /\ IsBinaryOp(stmts[1].kids[1], "Exponent")
    /\ IsBinaryOp(stmts[1].kids[1].kids[2], "Exponent")

\* the index of the first NewLine token at or after index i (Len(tokens) if none)
RECURSIVE NextNewLine(_)
NextNewLine(i) ==
    IF i >= Len(tokens) \/ Get(i).kind = "NewLine" THEN i ELSE NextNewLine(i + 1)

\* the statement and the diagnostic of a line that starts with the token t
IsInvalidStatementAt(stmt, t) ==
    stmt.sort = "Statement" /\ stmt.kind = "Invalid" /\ stmt.span = t.span /\ stmt.kids = <<>>

IsSyntaxErrorAt(err, t) == err.error = "Syntax" /\ err.span = t.span

\* the expression statement of the one identifier name on row row
IsIdStatement(stmt, name, row) ==
    /\ stmt.kind = "Expression" /\ Len(stmt.kids) = 1
    /\ IsId(stmt.kids[1], name)
    /\ stmt.span = [row_start |-> row, row_end |-> row, column_start |-> 1, column_end |-> 1]

\* C24: the pass of the loop of parse that starts at a `:=` token with a NewLine token
\* after it appends an Invalid statement with the span of that token and exactly one
\* diagnostic, of kind Syntax, and leaves the index just after the next NewLine token;
\* what parse returns for the lines after the malformed one is what it returns for them
\* without it: the statements of the following lines, and no further diagnostic.
C24_InvalidAssignmentSkipped ==
    /\ [][pc = "parse" /\ IsOp(Get(index), "ColonEqual") /\ NextNewLine(index) < Len(tokens) =>
            /\ pc' = "parse"
            /\ stmts' = Append(stmts, stmts'[Len(stmts')])
            /\ IsInvalidStatementAt(stmts'[Len(stmts')], Get(index))
            /\ Len(parse_errors') = Len(parse_errors) + 1
            /\ SubSeq(parse_errors', 1, Len(parse_errors)) = parse_errors
            /\ IsSyntaxErrorAt(parse_errors'[Len(parse_errors')], Get(index))
            /\ index' = NextNewLine(index) + 1]_vars
    /\ [](pc = "parsed" =>
            /\ text = <<":", "=", " ", "1", "\n", "x", "\n">> =>
                  /\ Len(stmts) = 2 /\ Len(parse_errors) = 1
                  /\ IsInvalidStatementAt(stmts[1], tokens[1])
                  /\ IsIdStatement(stmts[2], <<"x">>, 2)
            /\ text = <<"x", "\n", ":", "=", " ", "y", " ", "+", " ", "1", "\n",
                        "y", " ", "=", " ", "1", "\n">> =>
                  /\ Len(stmts) = 3 /\ Len(parse_errors) = 1
                  /\ IsIdStatement(stmts[1], <<"x">>, 1)
                  /\ IsInvalidStatementAt(stmts[2], tokens[3])
                  /\ stmts[3].kind = "Expression" /\ stmts[3].kids[1].kind = "Assign"
                  /\ IsId(stmts[3].kids[1].kids[1], <<"y">>)
                  /\ stmts[3].kids[1].kids[2].kind = "Number"
                  /\ stmts[3].span.row_start = 3 /\ stmts[3].span.column_start = 1)

\* C24 witness: parse has returned for a text whose second line starts with `:=`, with
\* three statements of which the second is the Invalid one
C24_Witness ==
    /\ pc = "parsed"
    /\ Len(stmts) = 3 /\ Len(parse_errors) = 1
    /\ IsOp(tokens[3], "ColonEqual")
    /\ IsInvalidStatementAt(stmts[2], tokens[3])
    /\ stmts[3].kind = "Expression"

\* the pass of the scan loop that starts here dispatches on a backslash
AtBackslash == Dispatching(LineStart) /\ current_char(LineStart.cs) = "\\"

\* the size of the line terminator at index i: 2 for \r\n, 1 for \n or \r, 0 for none
TerminatorSizeAt(i) ==
    IF peek_char(i) = "\r" /\ peek_char(i + 1) = "\n" THEN 2
    ELSE IF peek_char(i) \in {"\n", "\r"} THEN 1
    ELSE 0

\* C25: the pass of the scan loop on a backslash pushes no token for it (the tokens and
\* diagnostics of the pass are those of the indentation of its line); when a line
\* terminator (\n, \r or \r\n) follows the backslash the pass records no diagnostic and
\* stops after the terminator, not at the start of a logical line, so the whitespace of
\* the next physical line is not measured; when anything else follows, the pass records
\* exactly one diagnostic and stops after the backslash.
C25_LineContinuation ==
    [][AtBackslash =>
        LET after == LineStart.cs.index + 1
        IN  /\ tokens' = tokens \o LineStart.ind.toks
            /\ indent_stack' = LineStart.ind.stack
            /\ IF TerminatorSizeAt(after) > 0
               THEN /\ errors' = errors \o LineStart.ind.errs
                    /\ cs'.index = after + TerminatorSizeAt(after)
                    /\ ~is_beginning_of_line'
               ELSE /\ Len(errors') = Len(errors \o LineStart.ind.errs) + 1
                    /\ cs'.index = after]_vars

\* the pass of the scan loop that starts here dispatches on a character that starts no
\* token, comment or whitespace: one with no arm, or an operator character that is the
\* start of no operator
AtInvalidCharacter ==
    /\ Dispatching(LineStart)
    /\ LET c == current_char(LineStart.cs)
       IN  \/ ~HasArm(c)
           \/ /\ c \in OperatorChars
              /\ ~(c = "-" /\ next_char(LineStart.cs) = ">")
              /\ operator_match(c, next_char(LineStart.cs),
                                peek_char(LineStart.cs.index + 2)).val = ""

\* C26: the pass of the scan loop on a character that starts no token, comment or
\* whitespace records one more diagnostic, of kind Syntax, and advances by that one
\* character; and when tokenize returns, its diagnostics are not empty if its tokens
\* hold an Invalid token.
C26_InvalidCharacterReported ==
    /\ [][AtInvalidCharacter =>
            /\ cs'.index = LineStart.cs.index + 1
            /\ Len(errors') = Len(errors \o LineStart.ind.errs) + 1
            /\ errors'[Len(errors')].error = "Syntax"]_vars
    /\ [](pc = "tokenized" /\ (\E k \in DOMAIN tokens : tokens[k].kind = "Invalid")
            => lex_errors # <<>>)

\* C28: every pass of the loop of parse whose call of parse_statements returns leaves
\* the token index above what it was, so the passes made are at most as many as the
\* tokens passed; a pass is made only below the end of the tokens, so the loop runs at
\* most once per token and then parse is over: each step of parse is such a pass, the
\* return of parse, or a panic in a call.
C28_ParseTerminates ==
    /\ [][pc = "parse" =>
            \/ pc' = "parse" /\ index' > index /\ index < Len(tokens)
                             /\ Len(stmts') = Len(stmts) + 1
            \/ pc' \in {"parsed", "panic"}]_vars
    /\ [](pc \in {"parse", "parsed"} => Len(stmts) <= index /\ Len(stmts) <= Len(tokens))

\* C28 witness: parse has returned after three passes of its loop, the last of which
\* started at a token no statement or expression starts with
C28_Witness ==
    /\ pc = "parsed"
    /\ Len(stmts) = 3 /\ index >= Len(tokens) - 1
    /\ stmts[3].kind = "Expression" /\ stmts[3].kids[1].kind = "Invalid"

\* the position of the quote that closes the string opened at position i by the quote
\* q, on the same line; 0 if there is none
RECURSIVE ClosingQuote(_, _)
ClosingQuote(i, q) ==
    IF i >= Len(text) \/ text[i + 1] \in {"\n", "\r"} THEN 0
    ELSE IF text[i + 1] = q THEN i + 1
    ELSE ClosingQuote(i + 1, q)

\* the last position of the run of characters of the set chars that starts at position i
RECURSIVE RunEnd(_, _)
RunEnd(i, chars) ==
    IF i < Len(text) /\ text[i + 1] \in chars THEN RunEnd(i + 1, chars) ELSE i

IdChars == AsciiLower \cup AsciiUpper \cup AsciiDigits \cup {"_"}

\* The words of the text from position i on, read off the text: the identifier and
\* keyword lexemes outside string literals, comments and numbers, in source order.  ok
\* is FALSE for a text this reading does not decide: one with a backslash, with three
\* quotes in a row, with a string that is not closed on its line, or with a letter right
\* after a number.
RECURSIVE WordsFrom(_)
WordsFrom(i) ==
    LET c == text[i]
        Then(words, rest) == [ok |-> rest.ok, words |-> words \o rest.words]
        undecided == [ok |-> FALSE, words |-> <<>>]
        word == SubSeq(text, i, RunEnd(i, IdChars))
        after == RunEnd(i, IdChars) + 1
    IN  IF i > Len(text) THEN [ok |-> TRUE, words |-> <<>>]
        ELSE IF c = "\\" THEN undecided
        ELSE IF c = "#" THEN WordsFrom(LineEnd(i - 1) + 1)
        ELSE IF IsQuote(c)
        THEN (IF ClosingQuote(i, c) = 0 THEN undecided
              ELSE IF ClosingQuote(i, c) = i + 1 /\ peek_char(i + 1) = c THEN undecided
              ELSE WordsFrom(ClosingQuote(i, c) + 1))
        ELSE IF is_ascii_digit(c)
        THEN (IF valid_id_initial_chars(peek_char(RunEnd(i, AsciiDigits \cup {"."})))
              THEN undecided
              ELSE WordsFrom(RunEnd(i, AsciiDigits \cup {"."}) + 1))
        ELSE IF valid_id_initial_chars(c)
        THEN (IF is_str_prefix(word) /\ IsQuote(peek_char(after - 1))
              THEN WordsFrom(after)
              ELSE Then(<< word >>, WordsFrom(after)))
        ELSE WordsFrom(i + 1)

\* the lexemes of the Id, Keyword and SoftKeyword tokens of toks, in order
RECURSIVE WordTokens(_)
WordTokens(toks) ==
    IF toks = <<>> THEN <<>>
    ELSE IF Head(toks).kind \in {"Id", "Keyword", "SoftKeyword"}
    THEN << Head(toks).lexeme >> \o WordTokens(Tail(toks))
    ELSE WordTokens(Tail(toks))

\* C29: when tokenize returns, the Id, Keyword and SoftKeyword tokens are, in order, the
\* identifier and keyword lexemes of the source outside string literals and comments:
\* a word is taken by the string sub-lexer only as a literal prefix with the quote of a
\* string right after it, also when the word follows a string literal on its line.
C29_WordsBecomeTokens ==
    pc = "tokenized" /\ WordsFrom(1).ok => WordTokens(tokens) = WordsFrom(1).words

\* the Arc of the controller Session::document_controller finds for the Url, if any
ControllerOf(url) ==
    LET entry == entry_for_url(workspaces, url)
    IN  IF entry = <<>> THEN <<>>
        ELSE IF url \notin DOMAIN workspaces[entry[1]] THEN <<>>
        ELSE << workspaces[entry[1]][url] >>

\* C27: whatever the session has done since Session::take_snapshot (edits through
\* DocumentController::make_mut, open_document on the same Url, close_document,
\* closing or reopening the workspace folder), the Document seen through every
\* DocumentSnapshot is alive and has the contents and the version it had when the
\* snapshot was taken.
C27_SnapshotImmutable ==
    \A k \in DOMAIN snapshots :
        /\ snapshots[k].document \in DOMAIN documents
        /\ documents[snapshots[k].document] = snapshots[k].taken

\* two snapshots: the document of the first is open and now differs from what the
\* snapshot shows, the document of the second is open no more
C27_Witness ==
    /\ Len(snapshots) = 2
    /\ ControllerOf(snapshots[1].url) # <<>>
    /\ documents[ControllerOf(snapshots[1].url)[1]] # snapshots[1].taken
    /\ ControllerOf(snapshots[2].url) = <<>>

\* Path::starts_with: base is path or an ancestor of it
starts_with(path, base) == Len(base) <= Len(path) /\ SubSeq(path, 1, Len(base)) = base

\* C30: whatever folders have been opened or closed, Session::open_document places
\* a document only in a workspace whose root folder is an ancestor of the path of
\* the document, so every controller a workspace holds (and take_snapshot,
\* document_controller and close_document find there) is of a Url under its root;
\* a document under no registered folder is in no workspace.
C30_WorkspaceIsAncestor ==
    \A root \in DOMAIN workspaces : \A url \in DOMAIN workspaces[root] :
        starts_with(url.path, root)

====
